---------------------------- MODULE Spec2Model ----------------------------
(***************************************************************************)
(* The simulation engine of ai-trading: the market store (price           *)
(* generator), the trades store (position ledger), the traders store      *)
(* (agent registry) and the tick orchestrator of TradingDashboard.vue.    *)
(*                                                                         *)
(* Units.  Every monetary value of the code is a 2-decimal number; the    *)
(* model holds it as an integer number of cents (31500 is 3150000).       *)
(* Sizes are 2-decimal numbers held in hundredths (0.32 is 32).  A value  *)
(* returned by Math.random() is held in thousandths (0.4 is 400), so a    *)
(* draw ranges over 0..999.  The arithmetic between two stored values is   *)
(* the arithmetic of doubles (see "Numbers of the code" below).            *)
(***************************************************************************)
EXTENDS Integers, Sequences, FiniteSets, TLC

(***************************************************************************)
(* Bounds of the model.                                                    *)
(***************************************************************************)
\* simulation ticks (runSimulationTick calls) explored in a run
MaxTicks == 2
\* positions created by the orchestrator in a run
MaxTrades == 1
\* price shocks (the 5% branch of evolvePrice) drawn in a run
MaxShocks == 1
\* value of Date.now() when the stores are constructed
StartTime == 0
\* store actions called from outside the dashboard in a run
MaxCalls == 3

(***************************************************************************)
(* Program constants.                                                      *)
(***************************************************************************)
BASE_BALANCE == 10000
ASSET_HISTORY_LIMIT == 120
BALANCE_HISTORY_LIMIT == 240
TRADE_HISTORY_LIMIT == 200
ANALYSES_SHOWN == 8
MAX_ACTIVE == 3
TICK_INTERVAL_MS == 1500
MIN_PRICE == 5

\* null, where the code holds a trade or null
Null == [status |-> "null"]
IsNull(x) == x.status = "null"

Cents(units) == units * 100

Min(a, b) == IF a < b THEN a ELSE b
Max(a, b) == IF a > b THEN a ELSE b
Abs(a) == IF a < 0 THEN -a ELSE a

\* Array.prototype.slice(-n): the last n elements
SliceLast(s, n) ==
    IF Len(s) <= n THEN s ELSE SubSeq(s, Len(s) - n + 1, Len(s))

\* Array.prototype.slice(0, n): the first n elements
SliceFirst(s, n) ==
    IF Len(s) <= n THEN s ELSE SubSeq(s, 1, n)

\* Array.prototype.filter
Filter(s, P(_)) == SelectSeq(s, P)

\* Array.prototype.findIndex (0 stands for -1; indices are 1-based)
FindIndex(s, P(_)) ==
    LET hits == { i \in 1..Len(s) : P(s[i]) }
    IN  IF hits = {} THEN 0
        ELSE CHOOSE i \in hits : \A j \in hits : i <= j

\* Array.prototype.splice(index, 1)
RemoveAt(s, i) == SubSeq(s, 1, i - 1) \o SubSeq(s, i + 1, Len(s))

\* Array.prototype.reverse
Reverse(s) == [i \in 1..Len(s) |-> s[Len(s) + 1 - i]]

(***************************************************************************)
(* Numbers of the code.  A JavaScript number is an IEEE 754 double: the    *)
(* arithmetic of the stores is done on doubles and toFixed rounds the      *)
(* double it is given, which at a half cent may lie on either side of the  *)
(* decimal value.  The model holds a stored 2-decimal value c / 100 as the *)
(* integer c and computes every product, sum and toFixed of the code on    *)
(* the doubles themselves.                                                 *)
(*                                                                         *)
(* A natural number beyond 32 bits is a sequence of limbs of 14 bits, the  *)
(* least significant first, without leading zero limbs (0 is << >>).       *)
(***************************************************************************)
LIMB_BITS == 14
LIMB == 16384
MANTISSA_BITS == 53

\* the element of a singleton.  Only({ e(v) : v \in {x} }) is e(x) with x
\* evaluated once, however often e refers to it.
Only(S) == CHOOSE x \in S : TRUE

Limb(a, i) == IF i <= Len(a) THEN a[i] ELSE 0

RECURSIVE BigOf(_)
BigOf(n) == IF n = 0 THEN << >> ELSE << n % LIMB >> \o BigOf(n \div LIMB)

RECURSIVE IntOf(_)
IntOf(a) == IF a = << >> THEN 0 ELSE Head(a) + LIMB * IntOf(Tail(a))

RECURSIVE Trim(_)
Trim(a) ==
    IF a # << >> /\ a[Len(a)] = 0 THEN Trim(SubSeq(a, 1, Len(a) - 1)) ELSE a

RECURSIVE AddFrom(_, _, _, _)
AddFrom(a, b, i, carry) ==
    IF i > Len(a) /\ i > Len(b)
    THEN IF carry = 0 THEN << >> ELSE << carry >>
    ELSE LET s == Limb(a, i) + Limb(b, i) + carry
         IN  << s % LIMB >> \o AddFrom(a, b, i + 1, s \div LIMB)

BigAdd(a, b) == AddFrom(a, b, 1, 0)

RECURSIVE SubFrom(_, _, _, _)
SubFrom(a, b, i, borrow) ==
    IF i > Len(a) THEN << >>
    ELSE LET s == a[i] - Limb(b, i) - borrow
         IN  << (s + LIMB) % LIMB >>
                \o SubFrom(a, b, i + 1, IF s < 0 THEN 1 ELSE 0)

\* a - b, for a >= b
BigSub(a, b) == Trim(SubFrom(a, b, 1, 0))

\* -1, 0 or 1 as a is below, equal to or above b
BigCmp(a, b) ==
    IF Len(a) # Len(b) THEN (IF Len(a) < Len(b) THEN -1 ELSE 1)
    ELSE LET differ == { i \in 1..Len(a) : a[i] # b[i] }
         IN  IF differ = {} THEN 0
             ELSE LET top == CHOOSE i \in differ : \A j \in differ : i >= j
                  IN  IF a[top] < b[top] THEN -1 ELSE 1

RECURSIVE ScaleFrom(_, _, _, _)
ScaleFrom(a, k, i, carry) ==
    IF i > Len(a) THEN BigOf(carry)
    ELSE LET p == a[i] * k + carry
         IN  << p % LIMB >> \o ScaleFrom(a, k, i + 1, p \div LIMB)

\* a * k, for 0 <= k <= 2^16
BigScale(a, k) == Trim(ScaleFrom(a, k, 1, 0))

\* the sum of a[i] * b[k + 1 - i] over the limbs i from lo to hi
RECURSIVE Column(_, _, _, _, _)
Column(a, b, k, lo, hi) ==
    IF lo > hi THEN 0
    ELSE a[lo] * b[k + 1 - lo] + Column(a, b, k, lo + 1, hi)

RECURSIVE MulFrom(_, _, _, _)
MulFrom(a, b, k, carry) ==
    IF k >= Len(a) + Len(b) THEN BigOf(carry)
    ELSE LET p == Column(a, b, k, Max(1, k + 1 - Len(b)), Min(k, Len(a)))
                    + carry
         IN  << p % LIMB >> \o MulFrom(a, b, k + 1, p \div LIMB)

\* a * b, for a and b of at most four limbs
BigMul(a, b) ==
    IF a = << >> \/ b = << >> THEN << >> ELSE Trim(MulFrom(a, b, 1, 0))

\* quotient and remainder of a by q, for 0 < q <= 2^16, from limb i down
RECURSIVE DivFrom(_, _, _, _)
DivFrom(a, q, i, rem) ==
    IF i = 0 THEN [q |-> << >>, r |-> rem]
    ELSE LET cur == rem * LIMB + a[i]
             low == DivFrom(a, q, i - 1, cur % q)
         IN  [q |-> Append(low.q, cur \div q), r |-> low.r]

BigDivMod(a, q) ==
    LET d == DivFrom(a, q, Len(a), 0) IN [q |-> Trim(d.q), r |-> d.r]

\* a * 2^s and floor(a / 2^s)
Shl(a, s) ==
    IF a = << >> THEN << >>
    ELSE [i \in 1..(s \div LIMB_BITS) |-> 0]
            \o BigScale(a, 2 ^ (s % LIMB_BITS))

Shr(a, s) ==
    IF s \div LIMB_BITS >= Len(a) THEN << >>
    ELSE BigDivMod(SubSeq(a, (s \div LIMB_BITS) + 1, Len(a)),
                   2 ^ (s % LIMB_BITS)).q

RECURSIVE Bits(_)
Bits(n) == IF n = 0 THEN 0 ELSE 1 + Bits(n \div 2)

BitLen(a) ==
    IF a = << >> THEN 0 ELSE LIMB_BITS * (Len(a) - 1) + Bits(a[Len(a)])

IsOdd(a) == a # << >> /\ a[1] % 2 = 1

\* A double: sign * man * 2^exp with 2^52 <= man < 2^53, or man = 0.  The
\* values of the stores lie far from the subnormal and the infinite ones.
DZero == [sign |-> 1, man |-> << >>, exp |-> 0]

\* some of the s lowest bits of a is set
LowBits(a, s) ==
    \/ \E i \in 1..(s \div LIMB_BITS) : Limb(a, i) # 0
    \/ Limb(a, (s \div LIMB_BITS) + 1) % (2 ^ (s % LIMB_BITS)) # 0

\* the double nearest to sign * (n + f) * 2^e, ties to the even mantissa,
\* where f = 0 if `exact` and 0 < f < 1 otherwise (n then has more than 54
\* bits)
DRoundOf(sign, n, e, exact) ==
    Only({
        LET len == BitLen(v)
        IN  IF len = 0 THEN DZero
            ELSE IF len <= MANTISSA_BITS
            THEN [sign |-> sign, man |-> Shl(v, MANTISSA_BITS - len),
                  exp |-> e - (MANTISSA_BITS - len)]
            ELSE LET s == len - MANTISSA_BITS
                 IN  Only({
                        LET q == Shr(h, 1)
                            above == ~exact \/ LowBits(v, s - 1)
                            up == IsOdd(h) /\ (above \/ IsOdd(q))
                        IN  Only({
                                IF BitLen(m) > MANTISSA_BITS
                                THEN [sign |-> sign, man |-> Shr(m, 1),
                                      exp |-> e + s + 1]
                                ELSE [sign |-> sign, man |-> m,
                                      exp |-> e + s] :
                                m \in {IF up THEN BigAdd(q, << 1 >>) ELSE q} })
                        : h \in {Shr(v, s - 1)} })
        : v \in {n} })

DRound(sign, n, e) == DRoundOf(sign, n, e, TRUE)

\* the double nearest to p / q, for 0 < q <= 2^16: a decimal literal of the
\* source, Number(string), or the quotient of two small integers
DOfRatio(p, q) ==
    LET a == IF p < 0 THEN -p ELSE p
    IN  Only({ Only({ DRoundOf(IF p < 0 THEN -1 ELSE 1, d.q, -s, d.r = 0) :
                      d \in {BigDivMod(Shl(BigOf(a), s), q)} }) :
               s \in {MANTISSA_BITS + 3 + Bits(q) - Bits(a)} })

\* x * y
DMul(x, y) ==
    Only({ DRound(a.sign * b.sign, BigMul(a.man, b.man), a.exp + b.exp) :
           a \in {x}, b \in {y} })

DNeg(x) == [x EXCEPT !.sign = -x.sign]

\* x + y
DAdd(x, y) ==
    Only({
        IF u.man = << >> THEN v
        ELSE IF v.man = << >> THEN u
        ELSE LET e == IF u.exp < v.exp THEN u.exp ELSE v.exp
             IN  Only({
                    LET c == BigCmp(a, b)
                    IN  IF u.sign = v.sign
                        THEN DRound(u.sign, BigAdd(a, b), e)
                        ELSE IF c = 0 THEN DZero
                        ELSE IF c > 0 THEN DRound(u.sign, BigSub(a, b), e)
                        ELSE DRound(v.sign, BigSub(b, a), e) :
                    a \in {Shl(u.man, u.exp - e)},
                    b \in {Shl(v.man, v.exp - e)} })
        : u \in {x}, v \in {y} })

\* x - y
DSub(x, y) == DAdd(x, DNeg(y))

\* Number(x.toFixed(digits)) * scale for scale = 10^digits: the integer n
\* for which n / scale is nearest to x, the larger one in magnitude when two
\* are equally near (Number.prototype.toFixed)
ToFixed(x, scale) ==
    Only({ v.sign *
            IntOf(IF v.exp >= 0 THEN Shl(BigScale(v.man, scale), v.exp)
                  ELSE Shr(BigAdd(Shr(BigScale(v.man, scale), -v.exp - 1),
                                  << 1 >>), 1)) :
           v \in {x} })

\* the double of a stored 2-decimal value, held in cents or in hundredths
Money(c) == DOfRatio(c, 100)

\* the double Math.random() returned, held in thousandths
Draw(r) == DOfRatio(r, 1000)

\* n / d rounded to the nearest integer (d > 0), for n / d off the halves
NearestInt(n, d) ==
    IF n >= 0 THEN (2 * n + d) \div (2 * d)
    ELSE -((2 * (-n) + d) \div (2 * d))

\* n / d lies halfway between two integers
OnHalf(n, d) == 2 * (Abs(n) % d) = d

\* prices below 100000 and sizes below ten: the operands Fixed calls small
SmallPrice(price) == Abs(price) < Cents(100000)
SmallSize(size) == Abs(size) < 1000

\* Number(x.toFixed(digits)) in units of 1 / scale, for the double x the
\* code computed where exact decimal arithmetic gives n / d of these units.
\* Every operation on doubles is off by at most 2^-53 of its result; when
\* the operands are small, the few operations behind x leave it within
\* 5 / 10^9 of the exact value, and an exact value that is on no half of
\* 1 / scale lies at least 1 / 10^8 away from each of them.  So off the
\* halves toFixed gives the rounding of the exact value; on a half, and for
\* large operands, the double itself is rounded.
Fixed(small, n, d, x, scale) ==
    IF small /\ ~OnHalf(n, d) THEN NearestInt(n, d) ELSE ToFixed(x, scale)

(***************************************************************************)
(* market store                                                            *)
(***************************************************************************)
ASSETS == <<
    [symbol |-> "BTC",  name |-> "Bitcoin",  price |-> Cents(31500)],
    [symbol |-> "ETH",  name |-> "Ethereum", price |-> Cents(2200)],
    [symbol |-> "AAPL", name |-> "Apple",    price |-> Cents(189)],
    [symbol |-> "TSLA", name |-> "Tesla",    price |-> Cents(172)] >>

AssetIdx == 1..Len(ASSETS)

\* The Math.random() results one evolvePrice call consumes: r1 (drift),
\* r2 (volatility), r3 (shock gate) and, when r3 < 0.05, r4 (shock size).
\* A draw that is not consumed is recorded as 0.
IsShock(d) == d.r3 < 50

\* drift + volatility + shock as exact decimals, in millionths
Growth(d) ==
    (d.r1 - 500) * 20 + d.r2 * 15
        + (IF IsShock(d) THEN (d.r4 - 500) * 120 ELSE 0)

\* price * g / 10^6 as c + n / 10^6 without leaving 32 bits: with
\* price = a * 10000 + b and a * g = c * 100 + e, n = e * 10000 + b * g
ScaledProduct(price, g) ==
    LET a == price \div 10000
        b == price % 10000
    IN  [c |-> (a * g) \div 100, n |-> ((a * g) % 100) * 10000 + b * g]

\* the literals of evolvePrice
DriftSpan == DOfRatio(2, 100)
VolatilitySpan == DOfRatio(15, 1000)
ShockSpan == DOfRatio(12, 100)
Half == DOfRatio(1, 2)
One == DOfRatio(1, 1)

\* next = price * (1 + drift + volatility + shock), with
\*   drift      = (r1 - 0.5) * 0.02
\*   volatility = r2 * 0.015
\*   shock      = r3 < 0.05 ? (r4 - 0.5) * 0.12 : 0
nextOf(price, d) ==
    DMul(Money(price),
         DAdd(DAdd(DAdd(One, DMul(DSub(Draw(d.r1), Half), DriftSpan)),
                   DMul(Draw(d.r2), VolatilitySpan)),
              IF IsShock(d) THEN DMul(DSub(Draw(d.r4), Half), ShockSpan)
              ELSE DZero))

\* Number(next.toFixed(2)), in cents
nextCents(price, d) ==
    LET p == ScaledProduct(price, Growth(d))
    IN  IF SmallPrice(price) /\ ~OnHalf(p.n, 1000000)
        THEN price + p.c + NearestInt(p.n, 1000000)
        ELSE ToFixed(nextOf(price, d), 100)

\* Number((price * 0.5).toFixed(2)), in cents
halfPrice(price) ==
    Fixed(SmallPrice(price), price, 2, DMul(Money(price), Half), 100)

\* a slip: the floors of Math.max left out
evolvePrice_NoFloor(price, d) == nextCents(price, d)

\* evolvePrice followed by Number(...toFixed(2)) as generateNextTick applies
\* it: Math.max(next, price * 0.5, 5), then the rounding to the cent (the
\* rounding keeps the order, so it is applied to each argument of the
\* maximum).  price * 0.5 rounds to (price + 1) / 2 cents at most: a next
\* above that is the larger of the two.
evolvePrice(price, d) ==
    LET next == nextCents(price, d)
    IN  Max(IF next > (price + 1) \div 2 THEN next
            ELSE Max(next, halfPrice(price)),
            Cents(MIN_PRICE))

\* one entry of an asset's price history
HistoryPoint(t, p) == [time |-> t, price |-> p]

\* state of useMarketStore at construction, Date.now() being t
MarketInit(t) ==
    [assets |-> [i \in AssetIdx |->
                    [symbol  |-> ASSETS[i].symbol,
                     name    |-> ASSETS[i].name,
                     price   |-> ASSETS[i].price,
                     history |-> << HistoryPoint(t, ASSETS[i].price) >>]],
     tick   |-> 0]

\* the history generateNextTick stores for one asset
nextHistory(history, timestamp, nextPrice) ==
    Append(SliceLast(history, ASSET_HISTORY_LIMIT),
           HistoryPoint(timestamp, nextPrice))

\* generateNextTick: the store after the call; draws[i] holds the random
\* numbers evolvePrice consumes for the i-th asset, timestamp is Date.now()
generateNextTick(market, timestamp, draws) ==
    [assets |-> [i \in DOMAIN market.assets |->
                    LET asset == market.assets[i]
                        nextPrice == evolvePrice(asset.price, draws[i])
                    IN  [asset EXCEPT
                            !.price = nextPrice,
                            !.history = nextHistory(asset.history, timestamp,
                                                    nextPrice)]],
     tick   |-> market.tick + 1]

\* assetPriceMap / assetsMap: symbol -> asset; the last asset of a symbol wins
assetPriceMap(market) ==
    LET syms == { market.assets[i].symbol : i \in DOMAIN market.assets }
    IN  [sym \in syms |->
            LET idx == { i \in DOMAIN market.assets :
                            market.assets[i].symbol = sym }
            IN  market.assets[CHOOSE i \in idx : \A j \in idx : i >= j]]

(***************************************************************************)
(* trades store                                                            *)
(***************************************************************************)
TradesInit == [openPositions |-> <<>>, history |-> <<>>, analyses |-> <<>>]

\* `${traderId}-${timestamp}`
\* a slip: the timestamp left out of the id
TradeId_TraderOnly(traderId, timestamp) == << traderId, 0 >>

TradeId(traderId, timestamp) == << traderId, timestamp >>

\* a slip: the long factor of the take-profit used for the stop-loss
stopLossFactor_Swapped(type) == IF type = "long" THEN 103 ELSE 97

\* a slip: the take-profit set at the entry price
takeProfitFactor_Flat(type) == 100

\* the two bracket factors of buildTrade (0.97 and 1.03), in hundredths
stopLossFactor(type) == IF type = "long" THEN 97 ELSE 103
takeProfitFactor(type) == IF type = "long" THEN 103 ELSE 97

\* Number((entryPrice * factor).toFixed(2)), in cents
bracketPrice(entryPrice, factor) ==
    Fixed(SmallPrice(entryPrice), entryPrice * factor, 100,
          DMul(Money(entryPrice), DOfRatio(factor, 100)), 100)

buildTrade(payload) ==
    [id         |-> TradeId(payload.traderId, payload.timestamp),
     aiTrader   |-> payload.traderId,
     asset      |-> payload.asset,
     type       |-> payload.type,
     entryPrice |-> payload.entryPrice,
     size       |-> payload.size,
     timestamp  |-> payload.timestamp,
     status     |-> "open",
     analysis   |-> payload.analysis,
     stopLoss   |-> bracketPrice(payload.entryPrice,
                                 stopLossFactor(payload.type)),
     takeProfit |-> bracketPrice(payload.entryPrice,
                                 takeProfitFactor(payload.type))]

\* the note createTrade appends to analyses
analysisNote(trade, payload) ==
    [id        |-> trade.id,
     aiTrader  |-> payload.traderId,
     summary   |-> payload.analysis,
     timestamp |-> payload.timestamp]

\* a slip: the trade put in front of the open positions (unshift)
createTrade_Front(trades, payload) ==
    LET trade == buildTrade(payload)
    IN  [trades EXCEPT
            !.openPositions = << trade >> \o @,
            !.analyses = Append(@, analysisNote(trade, payload))]

\* createTrade: the store after the call (the call returns buildTrade(payload))
createTrade(trades, payload) ==
    LET trade == buildTrade(payload)
    IN  [trades EXCEPT
            !.openPositions = Append(@, trade),
            !.analyses = Append(@, analysisNote(trade, payload))]

\* a slip: the long formula applied to both directions
realizedPnl_LongOnly(trade, exitPrice) ==
    NearestInt((exitPrice - trade.entryPrice) * trade.size, 100)

\* a slip: the product truncated downwards (Math.floor) instead of rounded
realizedPnl_Floor(trade, exitPrice) ==
    (IF trade.type = "long"
     THEN (exitPrice - trade.entryPrice) * trade.size
     ELSE (trade.entryPrice - exitPrice) * trade.size) \div 100

\* the pnl closeTrade books: the price difference times the size, rounded
\* to the cent by toFixed(2)
realizedPnl(trade, exitPrice) ==
    LET long == trade.type = "long"
        entry == trade.entryPrice
        move == IF long THEN exitPrice - entry ELSE entry - exitPrice
    IN  Fixed(SmallPrice(exitPrice) /\ SmallPrice(entry)
                /\ Abs(move) < Cents(10000) /\ SmallSize(trade.size),
              move * trade.size, 100,
              DMul(IF long THEN DSub(Money(exitPrice), Money(entry))
                   ELSE DSub(Money(entry), Money(exitPrice)),
                   Money(trade.size)),
              100)

\* a slip: the brackets recomputed from the exit price at the close
closedTradeOf_Rebracket(trade, exitPrice, timestamp) ==
    [buildTrade([traderId |-> trade.aiTrader, asset |-> trade.asset,
                 type |-> trade.type, entryPrice |-> exitPrice,
                 size |-> trade.size, analysis |-> trade.analysis,
                 timestamp |-> trade.timestamp])
        EXCEPT !.status = "closed", !.entryPrice = trade.entryPrice]
    @@ [exitPrice |-> exitPrice, pnl |-> realizedPnl(trade, exitPrice),
        closeTimestamp |-> timestamp]

\* the record closeTrade builds from the open trade
closedTradeOf(trade, exitPrice, timestamp) ==
    [id             |-> trade.id,
     aiTrader       |-> trade.aiTrader,
     asset          |-> trade.asset,
     type           |-> trade.type,
     entryPrice     |-> trade.entryPrice,
     size           |-> trade.size,
     timestamp      |-> trade.timestamp,
     status         |-> "closed",
     analysis       |-> trade.analysis,
     stopLoss       |-> trade.stopLoss,
     takeProfit     |-> trade.takeProfit,
     exitPrice      |-> exitPrice,
     pnl            |-> realizedPnl(trade, exitPrice),
     closeTimestamp |-> timestamp]

\* a slip: index -1 passed on to splice, which removes the last trade
openIndex_LastWhenMissing(trades, tradeId) ==
    LET HasId(trade) == trade.id = tradeId
        index == FindIndex(trades.openPositions, HasId)
    IN  IF index = 0 THEN Len(trades.openPositions) ELSE index

\* index in openPositions of the first trade with this id, 0 when none
openIndex(trades, tradeId) ==
    LET HasId(trade) == trade.id = tradeId
    IN  FindIndex(trades.openPositions, HasId)

\* closeTrade: what the call returns (Null when no open trade has the id)
closeTradeResult(trades, tradeId, exitPrice, timestamp) ==
    LET index == openIndex(trades, tradeId)
    IN  IF index = 0 THEN Null
        ELSE closedTradeOf(trades.openPositions[index], exitPrice, timestamp)

\* a slip: the closed trade pushed at the tail of the log
pushHistory_Tail(history, closedTrade) ==
    SliceFirst(Append(history, closedTrade), TRADE_HISTORY_LIMIT)

\* the closed-trade log after a close: newest first, at most 200 kept
pushHistory(history, closedTrade) ==
    SliceFirst(<< closedTrade >> \o history, TRADE_HISTORY_LIMIT)

\* a slip: the splice left out, the trade stays in openPositions
closeTrade_NoSplice(trades, tradeId, exitPrice, timestamp) ==
    LET index == openIndex(trades, tradeId)
    IN  IF index = 0 THEN trades
        ELSE [trades EXCEPT
                !.history = pushHistory(@,
                    closedTradeOf(trades.openPositions[index], exitPrice,
                                  timestamp))]

\* closeTrade: the store after the call
closeTrade(trades, tradeId, exitPrice, timestamp) ==
    LET index == openIndex(trades, tradeId)
    IN  IF index = 0 THEN trades
        ELSE [trades EXCEPT
                !.openPositions = RemoveAt(@, index),
                !.history = pushHistory(@,
                    closedTradeOf(trades.openPositions[index], exitPrice,
                                  timestamp))]

\* a slip: the reverse left out
lastAnalyses_Chronological(trades) ==
    SliceLast(trades.analyses, ANALYSES_SHOWN)

\* getter lastAnalyses
lastAnalyses(trades) == Reverse(SliceLast(trades.analyses, ANALYSES_SHOWN))

(***************************************************************************)
(* traders store                                                           *)
(***************************************************************************)
strategies == <<
    [id |-> "grok", name |-> "Grok", riskTolerance |-> "Alta",
     preferredAssets |-> {"BTC", "ETH"}, analysisStyle |-> "Tecnico"],
    [id |-> "claude", name |-> "Claude", riskTolerance |-> "Media",
     preferredAssets |-> {"AAPL", "TSLA", "ETH"},
     analysisStyle |-> "Fundamental"],
    [id |-> "chatgpt", name |-> "ChatGPT", riskTolerance |-> "Baja",
     preferredAssets |-> {"AAPL", "TSLA"}, analysisStyle |-> "Mixta"],
    [id |-> "gemini", name |-> "Gemini", riskTolerance |-> "Variable",
     preferredAssets |-> {"BTC", "ETH", "TSLA"},
     analysisStyle |-> "Cuantitativa"] >>

TraderIds == { strategies[i].id : i \in DOMAIN strategies }

StrategyOf(id) ==
    strategies[CHOOSE i \in DOMAIN strategies : strategies[i].id = id]

BalancePoint(t, b) == [time |-> t, balance |-> b]

StatsInit ==
    [bestTrade   |-> Null,
     worstTrade  |-> Null,
     winRate     |-> 0,
     totalTrades |-> 0,
     wins        |-> 0,
     maxDrawdown |-> 0,
     peakBalance |-> Cents(BASE_BALANCE)]

\* state.traders at construction, Date.now() being t
TradersInit(t) ==
    [id \in TraderIds |->
        [id                |-> id,
         name              |-> StrategyOf(id).name,
         riskTolerance     |-> StrategyOf(id).riskTolerance,
         preferredAssets   |-> StrategyOf(id).preferredAssets,
         analysisStyle     |-> StrategyOf(id).analysisStyle,
         balance           |-> Cents(BASE_BALANCE),
         startOfDayBalance |-> Cents(BASE_BALANCE),
         balanceHistory    |-> << BalancePoint(t, Cents(BASE_BALANCE)) >>,
         lastAnalysis      |-> << "Inicializando estrategia..." >>,
         stats             |-> StatsInit]]

\* state.traders is a plain object: this.traders[traderId] finds, besides
\* the traders, what every object inherits from Object.prototype, and each
\* of these is truthy, so `if (!trader) return` lets it through
ObjectPrototypeNames ==
    {"__proto__", "constructor", "hasOwnProperty", "isPrototypeOf",
     "propertyIsEnumerable", "toLocaleString", "toString", "valueOf",
     "__defineGetter__", "__defineSetter__", "__lookupGetter__",
     "__lookupSetter__"}

\* the outcome of a call that throws a TypeError
TypeError == [status |-> "TypeError"]
Raised(outcome) == "status" \in DOMAIN outcome

\* a slip: the traders listed last to first
traderList_Reversed(traders) ==
    [i \in DOMAIN strategies |->
        traders[strategies[Len(strategies) + 1 - i].id]]

\* getter traderList: the traders in insertion order
traderList(traders) == [i \in DOMAIN strategies |-> traders[strategies[i].id]]

\* a slip: sliced before the push, as generateNextTick does
pushBalance_SliceFirst(balanceHistory, time, balance) ==
    Append(SliceLast(balanceHistory, BALANCE_HISTORY_LIMIT),
           BalancePoint(time, balance))

\* the balance history after one more point: at most 240 kept
pushBalance(balanceHistory, time, balance) ==
    SliceLast(Append(balanceHistory, BalancePoint(time, balance)),
              BALANCE_HISTORY_LIMIT)

\* a slip: the drawdown of the moment stored as the maximum
\* a slip: the peak left where it was
balanceUpdated_StalePeak(trader, delta, time) ==
    LET balance == trader.balance + delta
        peak == trader.stats.peakBalance
        drawdown == peak - balance
    IN  [trader EXCEPT
            !.balance = balance,
            !.balanceHistory = pushBalance(@, time, balance),
            !.stats.peakBalance = peak,
            !.stats.maxDrawdown = Max(@, drawdown)]

\* a slip: the drawdown of the last update only

balanceUpdated_CurrentDrawdown(trader, delta, time) ==
    LET balance == trader.balance + delta
        peak == Max(trader.stats.peakBalance, balance)
    IN  [trader EXCEPT
            !.balance = balance,
            !.balanceHistory = pushBalance(@, time, balance),
            !.stats.peakBalance = peak,
            !.stats.maxDrawdown = peak - balance]

\* updateBalance applied to one trader
balanceUpdated(trader, delta, time) ==
    LET balance == trader.balance + delta
        peak == Max(trader.stats.peakBalance, balance)
        drawdown == peak - balance
    IN  [trader EXCEPT
            !.balance = balance,
            !.balanceHistory = pushBalance(@, time, balance),
            !.stats.peakBalance = peak,
            !.stats.maxDrawdown = Max(@, drawdown)]

\* a slip: the delta booked on every trader
updateBalance_AllTraders(traders, traderId, delta, time) ==
    IF traderId \notin DOMAIN traders THEN traders
    ELSE [id \in DOMAIN traders |-> balanceUpdated(traders[id], delta, time)]

\* updateBalance: the traders after the call.  An id that names nothing
\* changes nothing.  For an inherited name the call writes `balance` on the
\* inherited object, outside the store, and throws at balanceHistory.push.
updateBalance(traders, traderId, delta, time) ==
    IF traderId \in DOMAIN traders
    THEN [traders EXCEPT ![traderId] = balanceUpdated(@, delta, time)]
    ELSE IF traderId \in ObjectPrototypeNames THEN TypeError
    ELSE traders

\* a slip: a trade that breaks even counted as a win
isWin_NonNegative(trade) == trade.pnl >= 0

\* a slip: the rate truncated to one decimal
winRateOf_Truncated(wins, totalTrades) ==
    IF totalTrades # 0 THEN (wins * 1000) \div totalTrades ELSE 0

\* trade.pnl && trade.pnl > 0
isWin(trade) == trade.pnl # 0 /\ trade.pnl > 0

\* (wins / totalTrades) * 100 with one decimal, in tenths of a percent
winRateOf(wins, totalTrades) ==
    IF totalTrades # 0
    THEN Fixed(totalTrades < 1000000, wins * 1000, totalTrades,
               DMul(DOfRatio(wins, totalTrades), DOfRatio(100, 1)), 10)
    ELSE 0

\* a slip: a trade that equals the best one replaces it
replacesBest_OrEqual(stats, trade) ==
    IsNull(stats.bestTrade) \/ trade.pnl >= stats.bestTrade.pnl

replacesBest(stats, trade) ==
    IsNull(stats.bestTrade) \/ trade.pnl > stats.bestTrade.pnl

replacesWorst(stats, trade) ==
    IsNull(stats.worstTrade) \/ trade.pnl < stats.worstTrade.pnl

\* a slip: only the wins counted as trades
statsRegistered_WinsOnly(stats, trade) ==
    LET totalTrades == IF isWin(trade) THEN stats.totalTrades + 1
                       ELSE stats.totalTrades
        wins == IF isWin(trade) THEN stats.wins + 1 ELSE stats.wins
    IN  [stats EXCEPT
            !.totalTrades = totalTrades,
            !.wins = wins,
            !.winRate = winRateOf(wins, totalTrades),
            !.bestTrade = IF replacesBest(stats, trade) THEN trade ELSE @,
            !.worstTrade = IF replacesWorst(stats, trade) THEN trade ELSE @]

\* registerTrade applied to one trader's stats
statsRegistered(stats, trade) ==
    LET totalTrades == stats.totalTrades + 1
        wins == IF isWin(trade) THEN stats.wins + 1 ELSE stats.wins
    IN  [stats EXCEPT
            !.totalTrades = totalTrades,
            !.wins = wins,
            !.winRate = winRateOf(wins, totalTrades),
            !.bestTrade = IF replacesBest(stats, trade) THEN trade ELSE @,
            !.worstTrade = IF replacesWorst(stats, trade) THEN trade ELSE @]

\* a slip: every trade booked in the stats of the first trader
registerTrade_FirstTrader(traders, traderId, trade) ==
    IF traderId \notin DOMAIN traders THEN traders
    ELSE [traders EXCEPT ![strategies[1].id].stats =
                                statsRegistered(@, trade)]

\* registerTrade: the traders after the call.  For an inherited name the
\* call throws at trader.stats.totalTrades, before any write.
registerTrade(traders, traderId, trade) ==
    IF traderId \in DOMAIN traders
    THEN [traders EXCEPT ![traderId].stats = statsRegistered(@, trade)]
    ELSE IF traderId \in ObjectPrototypeNames THEN TypeError
    ELSE traders

\* setAnalysis: the traders after the call.  For an inherited name the call
\* writes `lastAnalysis` on the inherited object, outside the store.
setAnalysis(traders, traderId, analysis) ==
    IF traderId \notin DOMAIN traders THEN traders
    ELSE [traders EXCEPT ![traderId].lastAnalysis = analysis]

(***************************************************************************)
(* tick orchestrator (TradingDashboard.vue)                                *)
(***************************************************************************)
\* riskSizeMap[riskTolerance] ?? 1, in tenths
riskSizeMap(riskTolerance) ==
    CASE riskTolerance = "Alta" -> 18
      [] riskTolerance = "Media" -> 12
      [] riskTolerance = "Baja" -> 8
      [] riskTolerance = "Variable" -> 15
      [] OTHER -> 10

\* Math.floor(r * n) for a draw r in thousandths
FloorScale(r, n) == (r * n) \div 1000

\* selectAsset: r is the Math.random() result
selectAsset(trader, market, r) ==
    LET all == market.assets
        Preferred(asset) == asset.symbol \in trader.preferredAssets
        pool == Filter(all, Preferred)
        candidates == IF Len(pool) # 0 THEN pool ELSE all
    IN  candidates[FloorScale(r, Len(candidates)) + 1]

\* Number(riskSize * (r * 0.6 + 0.4)).toFixed(2), in hundredths
tradeSize(trader, r) ==
    LET riskSize == riskSizeMap(trader.riskTolerance)
    IN  Fixed(TRUE, riskSize * (6 * r + 4000), 1000,
              DMul(DOfRatio(riskSize, 10),
                   DAdd(DMul(Draw(r), DOfRatio(6, 10)), DOfRatio(4, 10))),
              100)

\* Math.random() > 0.5 ? 'long' : 'short'
tradeType(r) == IF r > 500 THEN "long" ELSE "short"

\* buildAnalysis: the fields the text is made of
buildAnalysis(trader, asset, type, price) ==
    << "detecta", trader.name, type, asset.symbol, price,
       trader.analysisStyle >>

\* the closing summary of maybeCloseTrades
closeSummary(trader, trade, closed) ==
    << "cierra", trader.name, trade.asset, closed.pnl >>

\* a slip: no position found for any trader
positionsOf_None(trades, traderId) == << >>

\* the positions maybeCloseTrades and maybeOpenTrade filter out for a trader
positionsOf(trades, traderId) ==
    LET Mine(trade) == trade.aiTrader = traderId
    IN  Filter(trades.openPositions, Mine)

\* a slip: 0 where the asset is not found
priceFor_NoFallback(market, trade) ==
    LET prices == assetPriceMap(market)
    IN  IF trade.asset \in DOMAIN prices THEN prices[trade.asset].price
        ELSE 0

\* currentPrices[trade.asset]?.price ?? trade.entryPrice
priceFor(market, trade) ==
    LET prices == assetPriceMap(market)
    IN  IF trade.asset \in DOMAIN prices THEN prices[trade.asset].price
        ELSE trade.entryPrice

\* a slip: strict comparisons
hitTp_Strict(trade, price) ==
    IF trade.type = "long" THEN price > trade.takeProfit
    ELSE price < trade.takeProfit

hitTp(trade, price) ==
    IF trade.type = "long" THEN price >= trade.takeProfit
    ELSE price <= trade.takeProfit

hitSl(trade, price) ==
    IF trade.type = "long" THEN price <= trade.stopLoss
    ELSE price >= trade.stopLoss

\* holdProbability, in thousandths
holdProbability(trader) == IF trader.riskTolerance = "Baja" THEN 200 ELSE 350

\* shouldClose: r is consumed only when neither bracket is hit
shouldClose(trader, trade, price, r) ==
    hitTp(trade, price) \/ hitSl(trade, price) \/ r > holdProbability(trader)

\* Math.random() < 0.4
shouldTrade(r) == r < 400

\* the payload maybeOpenTrade hands to createTrade; d holds the draws for
\* selectAsset (asset), the size (size) and the direction (type)
openPayload(trader, market, timestamp, d) ==
    LET asset == selectAsset(trader, market, d.asset)
        type == tradeType(d.type)
    IN  [traderId   |-> trader.id,
         asset      |-> asset.symbol,
         type       |-> type,
         entryPrice |-> asset.price,
         size       |-> tradeSize(trader, d.size),
         analysis   |-> buildAnalysis(trader, asset, type, asset.price),
         timestamp  |-> timestamp]

(***************************************************************************)
(* State                                                                   *)
(***************************************************************************)
VARIABLES
    marketStore,   \* useMarketStore: [assets, tick]
    tradersStore,  \* useTradersStore: state.traders, trader id -> trader
    tradesStore,   \* useTradesStore: [openPositions, history, analyses]
    now,           \* Date.now()
    pc,            \* where the dashboard is: "unmounted", "mounted" (about
                   \* to run the first tick), "trader" (inside the forEach of
                   \* runSimulationTick) or "idle" (between two ticks)
    cur,           \* index in traderList of the trader being processed
    pending,       \* trades the forEach of maybeCloseTrades has yet to visit
    timestamp,     \* the timestamp of the running tick
    shocksDrawn,   \* shocks drawn so far (bounds the random source)
    random,        \* the values Math.random() may return at each call site
    calls,         \* store actions called from outside the dashboard
    event          \* the last call made and what it returned

vars == << marketStore, tradersStore, tradesStore, now, pc, cur, pending,
           timestamp, shocksDrawn, random, calls, event >>

\* The values of Math.random(), in thousandths, per call site: drift 0,
\* volatility 0, a shock of -3% or +3% when the gate opens; a close draw
\* below and above both hold probabilities; an entry draw below and above
\* 0.4; the first candidate asset; the smallest size; both directions.
\* `shocks` is the number of times the gate may open in a run, `trades` the
\* number of times the entry draw may fall below 0.4, `ticks` the number of
\* ticks the timer is followed for.
DefaultRandom ==
    [drift |-> {500}, volatility |-> {0}, gate |-> {0, 500},
     shock |-> {250, 750}, shocks |-> MaxShocks,
     close |-> {0, 999}, should |-> {0, 999}, trades |-> MaxTrades,
     ticks |-> MaxTicks,
     asset |-> {0}, size |-> {0}, type |-> {0, 999}]

Init ==
    /\ marketStore = MarketInit(StartTime)
    /\ tradersStore = TradersInit(StartTime)
    /\ tradesStore = TradesInit
    /\ now = StartTime
    /\ pc = "unmounted"
    /\ cur = 0
    /\ pending = <<>>
    /\ timestamp = StartTime
    /\ shocksDrawn = 0
    /\ random = DefaultRandom
    /\ calls = 0
    /\ event = [op |-> "init"]

\* the draws of one evolvePrice call
MarketDraws ==
    { d \in [r1 : random.drift, r2 : random.volatility,
             r3 : random.gate, r4 : random.shock \cup {0}] :
        IF IsShock(d) THEN d.r4 \in random.shock ELSE d.r4 = 0 }

ShocksIn(draws) == Cardinality({ i \in AssetIdx : IsShock(draws[i]) })

\* the random numbers of one generateNextTick call, within the shock budget
TickDraws ==
    { draws \in [AssetIdx -> MarketDraws] :
        shocksDrawn + ShocksIn(draws) <= random.shocks }

\* the random numbers of one maybeCloseTrades iteration and of one
\* maybeOpenTrade call; a draw that is not consumed is recorded as 0
CloseDraws == random.close

NoOpenDraws == [should |-> 0, asset |-> 0, size |-> 0, type |-> 0]

OpenDraws ==
    { d \in [should : random.should, asset : random.asset \cup {0},
             size : random.size \cup {0}, type : random.type \cup {0}] :
        IF shouldTrade(d.should)
        THEN d.asset \in random.asset /\ d.size \in random.size
                /\ d.type \in random.type
        ELSE d.asset = 0 /\ d.size = 0 /\ d.type = 0 }

Trader(i) == traderList(tradersStore)[i]

\* onMounted, up to its call of runSimulationTick: the first price step
OnMounted ==
    /\ pc = "unmounted"
    /\ \E draws \in TickDraws :
        /\ marketStore' = generateNextTick(marketStore, now, draws)
        /\ shocksDrawn' = shocksDrawn + ShocksIn(draws)
    /\ pc' = "mounted"
    /\ event' = [op |-> "generateNextTick", timestamp |-> now]
    /\ UNCHANGED << tradersStore, tradesStore, now, cur, pending, timestamp,
                    random, calls >>

\* runSimulationTick, up to the forEach over the traders: called by onMounted
\* right after the first price step, then by the timer every 1500 ms
RunSimulationTick ==
    /\ pc \in {"mounted", "idle"}
    /\ marketStore.tick <= random.ticks
    /\ now' = IF pc = "idle" THEN now + TICK_INTERVAL_MS ELSE now
    /\ \E draws \in TickDraws :
        /\ marketStore' = generateNextTick(marketStore, now', draws)
        /\ shocksDrawn' = shocksDrawn + ShocksIn(draws)
    /\ timestamp' = now'
    /\ cur' = 1
    /\ pending' = positionsOf(tradesStore, Trader(1).id)
    /\ pc' = "trader"
    /\ event' = [op |-> "runSimulationTick", timestamp |-> now']
    /\ UNCHANGED << tradersStore, tradesStore, random, calls >>

\* one iteration of the forEach of maybeCloseTrades, on the trade `trade`
\* of the trader `trader`, r being the draw of Math.random()
CloseIteration(trader, trade, r) ==
    LET price == priceFor(marketStore, trade)
        tp == hitTp(trade, price)
        sl == hitSl(trade, price)
        close == shouldClose(trader, trade, price, r)
        closed == closeTradeResult(tradesStore, trade.id, price, timestamp)
    IN  /\ IF close
           THEN /\ tradesStore' =
                    closeTrade(tradesStore, trade.id, price, timestamp)
                /\ tradersStore' =
                    IF ~IsNull(closed)
                    THEN setAnalysis(
                            registerTrade(
                                updateBalance(tradersStore, trader.id,
                                              closed.pnl, timestamp),
                                trader.id, closed),
                            trader.id, closeSummary(trader, trade, closed))
                    ELSE tradersStore
           ELSE UNCHANGED << tradesStore, tradersStore >>
        /\ event' = [op |-> "maybeCloseTrades", traderId |-> trader.id,
                     trade |-> trade, price |-> price, hitTp |-> tp,
                     hitSl |-> sl, shouldClose |-> close,
                     result |-> IF close THEN closed ELSE Null]

\* a slip: the forEach never moves on to the next position
MaybeCloseTrades_SamePosition ==
    /\ pc = "trader"
    /\ pending # <<>>
    /\ \E r \in CloseDraws : CloseIteration(Trader(cur), Head(pending), r)
    /\ UNCHANGED << marketStore, now, pc, cur, pending, timestamp,
                    shocksDrawn, random, calls >>

MaybeCloseTrades ==
    /\ pc = "trader"
    /\ pending # <<>>
    /\ \E r \in CloseDraws : CloseIteration(Trader(cur), Head(pending), r)
    /\ pending' = Tail(pending)
    /\ UNCHANGED << marketStore, now, pc, cur, timestamp, shocksDrawn, random,
                    calls >>

\* a slip: the check of the open positions left out
OpenCall_NoCap(trader, d) ==
    LET payload == openPayload(trader, marketStore, timestamp, d)
    IN  IF ~shouldTrade(d.should)
        THEN /\ d \in OpenDraws
             /\ event' = [op |-> "maybeOpenTrade", traderId |-> trader.id,
                          result |-> Null]
             /\ UNCHANGED << tradesStore, tradersStore >>
        ELSE /\ d \in OpenDraws
             /\ Len(tradesStore.analyses) < random.trades
             /\ tradesStore' = createTrade(tradesStore, payload)
             /\ tradersStore' =
                    setAnalysis(tradersStore, trader.id, payload.analysis)
             /\ event' = [op |-> "maybeOpenTrade", traderId |-> trader.id,
                          result |-> buildTrade(payload)]

\* maybeOpenTrade for the trader `trader`, d being the draws
OpenCall(trader, d) ==
    LET active == positionsOf(tradesStore, trader.id)
        payload == openPayload(trader, marketStore, timestamp, d)
    IN  IF Len(active) >= MAX_ACTIVE
        THEN /\ d = NoOpenDraws
             /\ event' = [op |-> "maybeOpenTrade", traderId |-> trader.id,
                          result |-> Null]
             /\ UNCHANGED << tradesStore, tradersStore >>
        ELSE IF ~shouldTrade(d.should)
        THEN /\ d \in OpenDraws
             /\ event' = [op |-> "maybeOpenTrade", traderId |-> trader.id,
                          result |-> Null]
             /\ UNCHANGED << tradesStore, tradersStore >>
        ELSE /\ d \in OpenDraws
             /\ Len(tradesStore.analyses) < random.trades
             /\ tradesStore' = createTrade(tradesStore, payload)
             /\ tradersStore' =
                    setAnalysis(tradersStore, trader.id, payload.analysis)
             /\ event' = [op |-> "maybeOpenTrade", traderId |-> trader.id,
                          result |-> buildTrade(payload)]

\* the end of maybeCloseTrades' forEach for the current trader, then
\* maybeOpenTrade, then the next trader or the end of the tick
MaybeOpenTrade ==
    /\ pc = "trader"
    /\ pending = <<>>
    /\ \E d \in OpenDraws \cup {NoOpenDraws} : OpenCall(Trader(cur), d)
    /\ IF cur < Len(strategies)
       THEN /\ cur' = cur + 1
            /\ pending' = positionsOf(tradesStore', Trader(cur + 1).id)
            /\ pc' = "trader"
       ELSE /\ cur' = 0
            /\ pending' = <<>>
            /\ pc' = "idle"
    /\ UNCHANGED << marketStore, now, timestamp, shocksDrawn, random, calls >>

Next ==
    \/ OnMounted
    \/ RunSimulationTick
    \/ MaybeCloseTrades
    \/ MaybeOpenTrade

Spec == Init /\ [][Next]_vars

(***************************************************************************)
(* The trades store called directly, as a caller of its two actions may:   *)
(* createTrade with any payload, closeTrade with any id and exit price.    *)
(***************************************************************************)
LedgerTraders == {"grok", "chatgpt"}
LedgerAssets == {"AAPL"}
LedgerTypes == {"long", "short"}
\* entry price and size: 0.32 and 2.00 at 50.00, 2.00 at 189.01
LedgerTerms ==
    { << Cents(50), 32 >>, << Cents(50), 200 >>, << Cents(189) + 1, 200 >> }
\* a position on the half cents: the brackets of 50.50 are 48.985 and 52.015
\* as exact decimals, and 0.50 of it closed at 50.01 loses 0.245
HalfCentTerms == << Cents(50) + 50, 50 >>
\* 50.01, 51.50 and 194.68
LedgerExitPrices == {Cents(50) + 1, Cents(50) + 150, Cents(194) + 68}

NonexistentId == TradeId("nonexistent", StartTime)

\* the ids createTrade has handed out: every creation leaves a note
createdIds(trades) == { trades.analyses[i].id : i \in DOMAIN trades.analyses }

openIds(trades) ==
    { trades.openPositions[i].id : i \in DOMAIN trades.openPositions }

closedIds(trades) == { trades.history[i].id : i \in DOMAIN trades.history }

LedgerPayloads ==
    { [traderId   |-> tr,
       asset      |-> a,
       type       |-> ty,
       entryPrice |-> terms[1],
       size       |-> terms[2],
       analysis   |-> << "nota", tr >>,
       timestamp  |-> now] :
        tr \in LedgerTraders, a \in LedgerAssets, ty \in LedgerTypes,
        terms \in LedgerTerms }
    \cup
    { [traderId   |-> "grok",
       asset      |-> a,
       type       |-> "long",
       entryPrice |-> HalfCentTerms[1],
       size       |-> HalfCentTerms[2],
       analysis   |-> << "nota", "grok" >>,
       timestamp  |-> now] : a \in LedgerAssets }

\* createTrade called with any payload: the store does not look at the ids
\* it has handed out, so a trader id and timestamp may come a second time
CreateTradeCall ==
    /\ calls < MaxCalls
    /\ \E payload \in LedgerPayloads :
        /\ tradesStore' = createTrade(tradesStore, payload)
        /\ event' = [op |-> "createTrade", payload |-> payload,
                     result |-> buildTrade(payload)]
    /\ calls' = calls + 1
    /\ UNCHANGED << marketStore, tradersStore, now, pc, cur, pending,
                    timestamp, shocksDrawn, random >>

\* closeTrade called with the id of a trade that is open, of one that was
\* closed before, or of none
CloseTradeCall ==
    /\ calls < MaxCalls
    /\ \E tradeId \in createdIds(tradesStore) \cup {NonexistentId},
          exitPrice \in LedgerExitPrices :
        /\ tradesStore' = closeTrade(tradesStore, tradeId, exitPrice, now)
        /\ event' = [op |-> "closeTrade", tradeId |-> tradeId,
                     exitPrice |-> exitPrice, timestamp |-> now,
                     result |-> closeTradeResult(tradesStore, tradeId,
                                                 exitPrice, now)]
    /\ calls' = calls + 1
    /\ UNCHANGED << marketStore, tradersStore, now, pc, cur, pending,
                    timestamp, shocksDrawn, random >>

\* time passes between two calls
TimePasses ==
    /\ now < StartTime + MaxTicks * TICK_INTERVAL_MS
    /\ calls < MaxCalls
    /\ now' = now + TICK_INTERVAL_MS
    /\ event' = [op |-> "timePasses"]
    /\ UNCHANGED << marketStore, tradersStore, tradesStore, pc, cur, pending,
                    timestamp, shocksDrawn, random, calls >>

NextLedger ==
    \/ CreateTradeCall
    \/ CloseTradeCall
    \/ TimePasses

SpecLedger == Init /\ [][NextLedger]_vars

(***************************************************************************)
(* The market store stepped on its own: generateNextTick called every      *)
(* 1500 ms, under a random source that moves every price the same way at   *)
(* every tick.                                                             *)
(***************************************************************************)
\* generateNextTick calls explored in a run of the market alone
MaxMarketTicks == 122

\* no move; +1.4985% (volatility 0.999); -4.8% (a shock at every tick);
\* -6.998% (the lowest drift but one and the largest negative shock at
\* every tick)
FlatSource ==
    [DefaultRandom EXCEPT !.gate = {500}, !.shocks = 0]
RisingSource ==
    [DefaultRandom EXCEPT !.gate = {500}, !.shocks = 0, !.volatility = {999}]
FallingSource ==
    [DefaultRandom EXCEPT !.gate = {0}, !.shock = {100},
                          !.shocks = Len(ASSETS) * (MaxMarketTicks + 1)]

CrashSource ==
    [DefaultRandom EXCEPT !.drift = {1}, !.gate = {0}, !.shock = {0},
                          !.shocks = Len(ASSETS) * (MaxMarketTicks + 1)]

MarketSources == {FlatSource, RisingSource, FallingSource, CrashSource}

InitMarket ==
    /\ marketStore = MarketInit(StartTime)
    /\ tradersStore = TradersInit(StartTime)
    /\ tradesStore = TradesInit
    /\ now = StartTime
    /\ pc = "unmounted"
    /\ cur = 0
    /\ pending = <<>>
    /\ timestamp = StartTime
    /\ shocksDrawn = 0
    /\ random \in MarketSources
    /\ calls = 0
    /\ event = [op |-> "init"]

\* generateNextTick called by the timer
GenerateNextTickCall ==
    /\ marketStore.tick < MaxMarketTicks
    /\ now' = now + TICK_INTERVAL_MS
    /\ \E draws \in TickDraws :
        /\ marketStore' = generateNextTick(marketStore, now', draws)
        /\ shocksDrawn' = shocksDrawn + ShocksIn(draws)
    /\ event' = [op |-> "generateNextTick", timestamp |-> now']
    /\ UNCHANGED << tradersStore, tradesStore, pc, cur, pending, timestamp,
                    random, calls >>

NextMarket == GenerateNextTickCall

SpecMarket == InitMarket /\ [][NextMarket]_vars

(***************************************************************************)
(* The traders store called directly: updateBalance, registerTrade and     *)
(* setAnalysis with any trader id: a trader's, one that names nothing, or  *)
(* one that names an inherited property.  A run starts from the            *)
(* store as constructed or from the store after a number of updateBalance  *)
(* calls of delta 0 made at construction time, which fill balanceHistory   *)
(* up to its limit.                                                        *)
(***************************************************************************)
RegistryTraders == {"grok", "claude"}
UnknownTrader == "nonexistent"
InheritedName == "toString"
RegistryIds == RegistryTraders \cup {UnknownTrader, InheritedName}

\* the store after a call: as it was when the call throws
StoreAfter(outcome) == IF Raised(outcome) THEN tradersStore ELSE outcome
RegistryDeltas == {-300, 0, 300}
RegistryPnls == {-300, 0, 300}
RegistryPrefills == {0, BALANCE_HISTORY_LIMIT - 2, BALANCE_HISTORY_LIMIT - 1}

\* the traders after updateBalance(id, 0, {time: StartTime}) was called k
\* times for every id of ids, k staying below the limit of balanceHistory:
\* each call appends one point and changes nothing else
prefilled(traders, ids, k) ==
    [id \in DOMAIN traders |->
        IF id \in ids
        THEN [traders[id] EXCEPT
                !.balanceHistory =
                    [i \in 1..(Len(@) + k) |->
                        IF i <= Len(@) THEN @[i]
                        ELSE BalancePoint(StartTime, traders[id].balance)]]
        ELSE traders[id]]

\* a closed trade as registerTrade receives it
RegistryTrade(traderId, pnl) ==
    closedTradeOf(
        buildTrade([traderId |-> traderId, asset |-> "AAPL",
                    type |-> "long", entryPrice |-> Cents(100), size |-> 100,
                    analysis |-> << "nota", traderId >>,
                    timestamp |-> StartTime]),
        Cents(100) + pnl, now)

InitRegistry ==
    /\ marketStore = MarketInit(StartTime)
    /\ \E k \in RegistryPrefills :
        tradersStore = prefilled(TradersInit(StartTime), RegistryTraders, k)
    /\ tradesStore = TradesInit
    /\ now = StartTime
    /\ pc = "unmounted"
    /\ cur = 0
    /\ pending = <<>>
    /\ timestamp = StartTime
    /\ shocksDrawn = 0
    /\ random = DefaultRandom
    /\ calls = 0
    /\ event = [op |-> "init"]

\* updateBalance called with the timestamp of a later tick as meta.time
UpdateBalanceCall ==
    /\ calls < MaxCalls
    /\ now' = now + TICK_INTERVAL_MS
    /\ \E traderId \in RegistryIds, delta \in RegistryDeltas :
        LET outcome == updateBalance(tradersStore, traderId, delta, now')
        IN  /\ tradersStore' = StoreAfter(outcome)
            /\ event' = [op |-> "updateBalance", traderId |-> traderId,
                         delta |-> delta, time |-> now',
                         raised |-> Raised(outcome)]
    /\ calls' = calls + 1
    /\ UNCHANGED << marketStore, tradesStore, pc, cur, pending,
                    timestamp, shocksDrawn, random >>

RegisterTradeCall ==
    /\ calls < MaxCalls
    /\ \E traderId \in RegistryIds, pnl \in RegistryPnls :
        LET trade == RegistryTrade(traderId, pnl)
            outcome == registerTrade(tradersStore, traderId, trade)
        IN  /\ tradersStore' = StoreAfter(outcome)
            /\ event' = [op |-> "registerTrade", traderId |-> traderId,
                         trade |-> trade, raised |-> Raised(outcome)]
    /\ calls' = calls + 1
    /\ UNCHANGED << marketStore, tradesStore, now, pc, cur, pending,
                    timestamp, shocksDrawn, random >>

SetAnalysisCall ==
    /\ calls < MaxCalls
    /\ \E traderId \in RegistryIds :
        LET outcome ==
                setAnalysis(tradersStore, traderId, << "nota", traderId >>)
        IN  /\ tradersStore' = StoreAfter(outcome)
            /\ event' = [op |-> "setAnalysis", traderId |-> traderId,
                         raised |-> Raised(outcome)]
    /\ calls' = calls + 1
    /\ UNCHANGED << marketStore, tradesStore, now, pc, cur, pending,
                    timestamp, shocksDrawn, random >>

NextRegistry ==
    \/ UpdateBalanceCall
    \/ RegisterTradeCall
    \/ SetAnalysisCall

SpecRegistry == InitRegistry /\ [][NextRegistry]_vars

(***************************************************************************)
(* Properties                                                              *)
(***************************************************************************)
\* value (an integer, in cents) is the nearest cent to raw / 100
NearestCent(value, raw) == 2 * Abs(100 * value - raw) <= 100

\* the unrounded profit of a closed trade, in hundredths of a cent
RawPnl(t) ==
    IF t.type = "long" THEN (t.exitPrice - t.entryPrice) * t.size
    ELSE (t.entryPrice - t.exitPrice) * t.size

Open == tradesStore.openPositions
Closed == tradesStore.history

\* the terms of a trade that are set when it is created
SameTerms(a, b) ==
    /\ a.stopLoss = b.stopLoss
    /\ a.takeProfit = b.takeProfit
    /\ a.entryPrice = b.entryPrice
    /\ a.size = b.size
    /\ a.type = b.type
    /\ a.asset = b.asset
    /\ a.aiTrader = b.aiTrader

ClosedByCall == event.op = "closeTrade" /\ ~IsNull(event.result)

\* C1, as stated: a trade goes from open to closed exactly once.  After
\* every call no id is both in openPositions and in the closed-trade log,
\* every open trade has status open and every logged trade status closed, an
\* id of the log never comes back to openPositions, and closeTrade on an id
\* that is already in the log returns null, adds no record to the log and
\* changes no trader.
C1_Step ==
    /\ openIds(tradesStore') \cap closedIds(tradesStore') = {}
    /\ \A i \in DOMAIN Open' : Open'[i].status = "open"
    /\ \A i \in DOMAIN Closed' : Closed'[i].status = "closed"
    /\ closedIds(tradesStore) \cap openIds(tradesStore') = {}
    /\ (event'.op = "closeTrade" /\ event'.tradeId \in closedIds(tradesStore))
        => /\ IsNull(event'.result)
           /\ Closed' = Closed
           /\ tradersStore' = tradersStore

C1_OpenToClosedOnce == [][C1_Step]_vars

\* every id was handed out by one createTrade call: no two notes of the
\* analysis log, one per creation, carry the same id
UsedOnce(trades) ==
    \A i, j \in DOMAIN trades.analyses :
        trades.analyses[i].id = trades.analyses[j].id => i = j

\* C1: as long as no two createTrade calls share trader id and timestamp, a
\* trade goes from open to closed exactly once: after every call no id is
\* both in openPositions and in the closed-trade log, every open trade has
\* status open and every logged trade status closed, an id of the log never
\* comes back to openPositions, and closeTrade on an id that is already in
\* the log returns null, adds no record to the log and changes no trader.
\* Every open and every logged trade keeps status open and closed whatever
\* the ids.
C1_OnceWithIdsUsedOnce ==
    [][/\ UsedOnce(tradesStore') => C1_Step
       /\ \A i \in DOMAIN Open' : Open'[i].status = "open"
       /\ \A i \in DOMAIN Closed' : Closed'[i].status = "closed"]_vars

\* a second closeTrade on an id of the log, every id used once, which
\* returned null
C1_Witness ==
    /\ UsedOnce(tradesStore)
    /\ event.op = "closeTrade"
    /\ IsNull(event.result)
    /\ event.tradeId \in closedIds(tradesStore)

\* C2: closeTrade on an open trade returns a closed record, also put at the
\* head of the log, whose pnl is (exitPrice - entryPrice) * size for a long
\* and (entryPrice - exitPrice) * size for a short, to the nearest cent; a
\* short of size 2 entered at 50 (brackets 51.5 / 48.5) and closed at 51.5
\* books -3.00.
C2_RealizedPnl ==
    ClosedByCall =>
        LET t == event.result
        IN  /\ t.status = "closed"
            /\ t.id = event.tradeId
            /\ t.exitPrice = event.exitPrice
            /\ NearestCent(t.pnl, RawPnl(t))
            /\ Closed[1] = t
            /\ (t.type = "short" /\ t.size = 200 /\ t.entryPrice = Cents(50)
                    /\ t.exitPrice = 5150)
                => (t.pnl = -300 /\ t.stopLoss = 5150 /\ t.takeProfit = 4850)

\* the short of size 2 entered at 50 was closed at 51.5
C2_Witness ==
    /\ ClosedByCall
    /\ event.result.type = "short"
    /\ event.result.size = 200
    /\ event.result.entryPrice = Cents(50)
    /\ event.result.exitPrice = 5150
    /\ event.result.pnl = -300

\* C3 as stated: a long has pnl > 0 if and only if exitPrice > entryPrice, a
\* short if and only if exitPrice < entryPrice.
C3_SignIffMove ==
    ClosedByCall =>
        LET t == event.result
        IN  IF t.type = "long"
            THEN (t.pnl > 0) <=> (t.exitPrice > t.entryPrice)
            ELSE (t.pnl > 0) <=> (t.exitPrice < t.entryPrice)

\* C3, amended: the pnl never has the sign opposite to the move (a long has
\* pnl > 0 only if exitPrice > entryPrice and pnl < 0 only if exitPrice <
\* entryPrice, a short the reverse); it is positive whenever the unrounded
\* profit exceeds half a cent, negative whenever the unrounded loss exceeds
\* half a cent, and 0.00 whenever the unrounded amount is below half a cent.
C3_SignNeverOpposite ==
    ClosedByCall =>
        LET t == event.result
            up == IF t.type = "long" THEN t.exitPrice > t.entryPrice
                  ELSE t.exitPrice < t.entryPrice
            down == IF t.type = "long" THEN t.exitPrice < t.entryPrice
                    ELSE t.exitPrice > t.entryPrice
        IN  /\ t.pnl > 0 => up
            /\ t.pnl < 0 => down
            /\ RawPnl(t) > 50 => t.pnl > 0
            /\ RawPnl(t) < -50 => t.pnl < 0
            /\ Abs(RawPnl(t)) < 50 => t.pnl = 0

\* a long closed above its entry price whose profit rounds to 0.00
C3_Witness ==
    /\ ClosedByCall
    /\ event.result.type = "long"
    /\ event.result.exitPrice > event.result.entryPrice
    /\ event.result.pnl = 0

\* C4: createTrade returns a trade of status open, whose stopLoss is
\* entryPrice * 0.97 and takeProfit entryPrice * 1.03 for a long, 1.03 and
\* 0.97 for a short, each to the nearest cent, and appends it at the end of
\* openPositions.
C4_Step ==
    event'.op = "createTrade" =>
        LET t == event'.result
            p == event'.payload
            long == p.type = "long"
        IN  /\ Open' = Append(Open, t)
            /\ t.status = "open"
            /\ t.entryPrice = p.entryPrice /\ t.type = p.type
            /\ NearestCent(t.stopLoss,
                           p.entryPrice * (IF long THEN 97 ELSE 103))
            /\ NearestCent(t.takeProfit,
                           p.entryPrice * (IF long THEN 103 ELSE 97))

C4_BracketsAtCreation == [][C4_Step]_vars

\* a short entered at 189.01 appended behind another open position
C4_Witness ==
    /\ event.op = "createTrade"
    /\ Len(Open) >= 2
    /\ Open[Len(Open)].type = "short"
    /\ Open[Len(Open)].entryPrice = Cents(189) + 1
    /\ Open[Len(Open)].stopLoss = 19468

\* C5: the brackets, entry price, size, direction, asset and agent of a trade
\* never change: from one step to the next a trade that stays open, a trade
\* that is closed and a trade of the log all keep them.
C5_Step ==
    /\ \A i \in DOMAIN Open :
        /\ \A j \in DOMAIN Open' :
            Open'[j].id = Open[i].id => SameTerms(Open[i], Open'[j])
        /\ \A j \in DOMAIN Closed' :
            Closed'[j].id = Open[i].id => SameTerms(Open[i], Closed'[j])
    /\ \A i \in DOMAIN Closed :
        \A j \in DOMAIN Closed' :
            Closed'[j].id = Closed[i].id => SameTerms(Closed[i], Closed'[j])

C5_TermsNeverChange == [][C5_Step]_vars

\* a position closed by the dashboard at a price other than its entry price
C5_Witness ==
    /\ event.op = "maybeCloseTrades"
    /\ ~IsNull(event.result)
    /\ Closed # <<>>
    /\ Closed[1].exitPrice # Closed[1].entryPrice
    /\ Closed[1].closeTimestamp > Closed[1].timestamp

ClosedByTick == event.op = "maybeCloseTrades" /\ ~IsNull(event.result)

\* the scenario of the claim, computed with the operations of the stores: a
\* trader opens a long of size 1 at 100, the price becomes 103
ScenarioTrader == "claude"
ScenarioTrade ==
    buildTrade([traderId |-> ScenarioTrader, asset |-> "ETH",
                type |-> "long", entryPrice |-> Cents(100), size |-> 100,
                analysis |-> << "nota" >>, timestamp |-> StartTime])
ScenarioClosed ==
    closeTradeResult(createTrade(TradesInit,
                        [traderId |-> ScenarioTrader, asset |-> "ETH",
                         type |-> "long", entryPrice |-> Cents(100),
                         size |-> 100, analysis |-> << "nota" >>,
                         timestamp |-> StartTime]),
                     ScenarioTrade.id, Cents(103),
                     StartTime + TICK_INTERVAL_MS)
ScenarioTraders ==
    registerTrade(
        updateBalance(TradersInit(StartTime), ScenarioTrader,
                      ScenarioClosed.pnl, StartTime + TICK_INTERVAL_MS),
        ScenarioTrader, ScenarioClosed)

C6_Scenario ==
    /\ ScenarioTrade.stopLoss = Cents(97)
    /\ ScenarioTrade.takeProfit = Cents(103)
    /\ hitTp(ScenarioTrade, Cents(103))
    /\ shouldClose(Trader(2), ScenarioTrade, Cents(103), 0)
    /\ ScenarioClosed.pnl = 300
    /\ ScenarioTraders[ScenarioTrader].balance = Cents(10003)
    /\ ScenarioTraders[ScenarioTrader].stats.wins = 1
    /\ ScenarioTraders[ScenarioTrader].stats.totalTrades = 1
    /\ ScenarioTraders[ScenarioTrader].stats.winRate = 1000
    /\ \A id \in TraderIds \ {ScenarioTrader} :
        ScenarioTraders[id] = TradersInit(StartTime)[id]

\* C6: when an iteration of maybeCloseTrades closes a position, in that same
\* step the pnl of that trade, and nothing else, is added to the balance of
\* the trader who owns it, that trader's totalTrades grows by one, its
\* lastAnalysis becomes the closing summary, and no other trader changes; an
\* iteration that closes nothing changes no trader.  In the scenario (balance
\* 10000, long of size 1 at 100, brackets 97 / 103, price 103) the close
\* books 3.00: balance 10003.00, wins 1, totalTrades 1, winRate 100.0.
C6_Step ==
    event'.op = "maybeCloseTrades" =>
        IF IsNull(event'.result) THEN tradersStore' = tradersStore
        ELSE LET id == event'.traderId
                 closed == event'.result
             IN  /\ closed.aiTrader = id
                 /\ closed.id = event'.trade.id
                 /\ Closed' = << closed >> \o Closed
                 /\ closed.closeTimestamp = timestamp /\ timestamp' = timestamp
                 /\ tradersStore'[id].balance =
                        tradersStore[id].balance + closed.pnl
                 /\ tradersStore'[id].stats.totalTrades =
                        tradersStore[id].stats.totalTrades + 1
                 /\ tradersStore'[id].stats.wins =
                        tradersStore[id].stats.wins
                            + (IF closed.pnl > 0 THEN 1 ELSE 0)
                 /\ tradersStore'[id].lastAnalysis =
                        << "cierra", tradersStore[id].name, closed.asset,
                           closed.pnl >>
                 /\ \A other \in TraderIds \ {id} :
                        tradersStore'[other] = tradersStore[other]

C6_CloseBooksPnl == C6_Scenario /\ [][C6_Step]_vars

\* a take-profit close by the dashboard that booked a profit on the owner
C6_Witness ==
    /\ ClosedByTick
    /\ event.hitTp
    /\ event.result.pnl > 0
    /\ tradersStore[event.traderId].balance
            = Cents(BASE_BALANCE) + event.result.pnl
    /\ tradersStore[event.traderId].stats.totalTrades = 1
    /\ tradersStore[event.traderId].stats.winRate = 1000

\* the price is at or beyond one of the brackets of the trade
AtBracket(t, price) ==
    IF t.type = "long" THEN price >= t.takeProfit \/ price <= t.stopLoss
    ELSE price <= t.takeProfit \/ price >= t.stopLoss

\* C7: an iteration of maybeCloseTrades on a position whose asset price is at
\* or beyond its take-profit or its stop-loss closes it whatever Math.random()
\* returns, and when a tick is over no open position has the current price of
\* its asset at or beyond one of its brackets.
C7_BracketsClose ==
    /\ event.op = "maybeCloseTrades" /\ AtBracket(event.trade, event.price)
        => /\ ~IsNull(event.result)
           /\ event.trade.id \notin openIds(tradesStore)
    /\ pc = "idle"
        => \A i \in DOMAIN Open :
            ~AtBracket(Open[i], priceFor(marketStore, Open[i]))

\* a position closed with the price exactly on its bracket
C7_Witness ==
    /\ ClosedByTick
    /\ \/ event.price = event.trade.takeProfit
       \/ event.price = event.trade.stopLoss

\* C8: closeTrade with an id that no open trade has returns null and leaves
\* openPositions, the log and the analyses as they were.
C8_Step ==
    (event'.op = "closeTrade" /\ event'.tradeId \notin openIds(tradesStore))
        => (IsNull(event'.result) /\ tradesStore' = tradesStore)

C8_UnknownIdNoOp == [][C8_Step]_vars

\* closeTrade("nonexistent") returned null on a ledger that holds trades
C8_Witness ==
    /\ event.op = "closeTrade"
    /\ event.tradeId = NonexistentId
    /\ IsNull(event.result)
    /\ Open # <<>>

\* C9 as stated: the price history of every asset holds at most 120 entries.
C9_HistoryAtMost120 ==
    \A i \in DOMAIN marketStore.assets :
        Len(marketStore.assets[i].history) <= ASSET_HISTORY_LIMIT

\* C10: balanceHistory never holds more than 240 points and its last point
\* is the current balance; updateBalance on a known trader appends one point
\* carrying the new balance and the time given, and drops the oldest points
\* beyond 240.
BalanceHistoryOk(trader) ==
    /\ Len(trader.balanceHistory) <= BALANCE_HISTORY_LIMIT
    /\ trader.balanceHistory[Len(trader.balanceHistory)].balance
            = trader.balance

C10_Step ==
    /\ \A id \in TraderIds : BalanceHistoryOk(tradersStore'[id])
    /\ (event'.op = "updateBalance" /\ event'.traderId \in TraderIds) =>
        LET old == tradersStore[event'.traderId].balanceHistory
            new == tradersStore'[event'.traderId].balanceHistory
            dropped == Len(old) + 1 - Len(new)
        IN  /\ Len(new) = Min(Len(old) + 1, BALANCE_HISTORY_LIMIT)
            /\ new[Len(new)] =
                    BalancePoint(event'.time,
                                 tradersStore[event'.traderId].balance
                                    + event'.delta)
            /\ \A i \in 1..(Len(new) - 1) : new[i] = old[i + dropped]

C10_BalanceHistoryBounded ==
    (\A id \in TraderIds : BalanceHistoryOk(tradersStore[id]))
        /\ [][C10_Step]_vars

\* two updateBalance calls on a history that already held 239 points or more:
\* the history is full and its oldest point was dropped
C10_Witness ==
    /\ event.op = "updateBalance"
    /\ event.traderId \in TraderIds
    /\ LET h == tradersStore[event.traderId].balanceHistory
       IN  /\ Len(h) = BALANCE_HISTORY_LIMIT
           /\ h[Len(h) - 1].time # StartTime
           /\ h[Len(h)].balance # Cents(BASE_BALANCE)

(***************************************************************************)
(* The trades store with a closed-trade log and an analysis log that are   *)
(* already long: k trades were created and closed one after the other,     *)
(* 1500 ms apart, before the calls that are observed.                      *)
(***************************************************************************)
LogPrefills ==
    {0, ANALYSES_SHOWN - 1, TRADE_HISTORY_LIMIT - 1, TRADE_HISTORY_LIMIT}

LogExitPrice == Cents(50) + 150

LogPayloads(t) ==
    { [traderId   |-> "grok",
       asset      |-> "AAPL",
       type       |-> ty,
       entryPrice |-> Cents(50),
       size       |-> 200,
       analysis   |-> << "nota", "grok" >>,
       timestamp  |-> t] : ty \in LedgerTypes }

\* the payload of the j-th trade created before the observed calls
LogPayload(j) ==
    CHOOSE payload \in LogPayloads(StartTime + j * TICK_INTERVAL_MS) :
        payload.type = (IF j % 2 = 1 THEN "long" ELSE "short")

\* the store after createTrade(LogPayload(j)) and closeTrade of that trade
\* at the same time, for j = 1..k
prefilledLedger(k) ==
    [openPositions |-> << >>,
     history  |-> [i \in 1..Min(k, TRADE_HISTORY_LIMIT) |->
                    closedTradeOf(buildTrade(LogPayload(k + 1 - i)),
                                  LogExitPrice,
                                  LogPayload(k + 1 - i).timestamp)],
     analyses |-> [j \in 1..k |->
                    analysisNote(buildTrade(LogPayload(j)), LogPayload(j))]]

InitLog ==
    /\ marketStore = MarketInit(StartTime)
    /\ tradersStore = TradersInit(StartTime)
    /\ \E k \in LogPrefills :
        /\ tradesStore = prefilledLedger(k)
        /\ now = StartTime + k * TICK_INTERVAL_MS
    /\ pc = "unmounted"
    /\ cur = 0
    /\ pending = <<>>
    /\ timestamp = StartTime
    /\ shocksDrawn = 0
    /\ random = DefaultRandom
    /\ calls = 0
    /\ event = [op |-> "init"]

\* createTrade, 1500 ms after the call before
LogCreateTradeCall ==
    /\ calls < MaxCalls
    /\ now' = now + TICK_INTERVAL_MS
    /\ \E payload \in LogPayloads(now') :
        /\ tradesStore' = createTrade(tradesStore, payload)
        /\ event' = [op |-> "createTrade", payload |-> payload,
                     result |-> buildTrade(payload)]
    /\ calls' = calls + 1
    /\ UNCHANGED << marketStore, tradersStore, pc, cur, pending, timestamp,
                    shocksDrawn, random >>

\* closeTrade on an open trade or on an id no trade has
LogCloseTradeCall ==
    /\ calls < MaxCalls
    /\ now' = now + TICK_INTERVAL_MS
    /\ \E tradeId \in openIds(tradesStore) \cup {NonexistentId} :
        /\ tradesStore' =
                closeTrade(tradesStore, tradeId, LogExitPrice, now')
        /\ event' = [op |-> "closeTrade", tradeId |-> tradeId,
                     exitPrice |-> LogExitPrice, timestamp |-> now',
                     result |-> closeTradeResult(tradesStore, tradeId,
                                                 LogExitPrice, now')]
    /\ calls' = calls + 1
    /\ UNCHANGED << marketStore, tradersStore, pc, cur, pending, timestamp,
                    shocksDrawn, random >>

\* the getter lastAnalyses read (recentAnalyses of the dashboard)
LastAnalysesRead ==
    /\ calls < MaxCalls
    /\ event' = [op |-> "lastAnalyses", result |-> lastAnalyses(tradesStore)]
    /\ calls' = calls + 1
    /\ UNCHANGED << marketStore, tradersStore, tradesStore, now, pc, cur,
                    pending, timestamp, shocksDrawn, random >>

NextLog ==
    \/ LogCreateTradeCall
    \/ LogCloseTradeCall
    \/ LastAnalysesRead

SpecLog == InitLog /\ [][NextLog]_vars

\* the log is ordered most recently closed first
LogOrdered(history) ==
    \A i \in 1..(Len(history) - 1) :
        history[i].closeTimestamp >= history[i + 1].closeTimestamp

C11_Step ==
    /\ Len(Closed') <= TRADE_HISTORY_LIMIT
    /\ LogOrdered(Closed')
    /\ IF ClosedByCall'
       THEN /\ Closed' # << >>
            /\ Head(Closed') = event'.result
            /\ Tail(Closed') =
                    IF Len(Closed) < TRADE_HISTORY_LIMIT THEN Closed
                    ELSE SubSeq(Closed, 1, Len(Closed) - 1)
       ELSE Closed' = Closed

\* C11: the closed-trade log holds at most 200 trades, most recently closed
\* first; every successful closeTrade puts the closed trade at the head and
\* keeps the others in their order, dropping the last one (the trade closed
\* longest ago) when the log already held 200; no other call changes the log.
C11_ClosedLogBounded ==
    (Len(Closed) <= TRADE_HISTORY_LIMIT /\ LogOrdered(Closed))
        /\ [][C11_Step]_vars

\* a close on a log that held 200 trades: the log still holds 200, the new
\* closed trade first, and the first trade ever closed is gone
C11_Witness ==
    /\ ClosedByCall
    /\ Len(Closed) = TRADE_HISTORY_LIMIT
    /\ Head(Closed) = event.result
    /\ LogPayload(1).timestamp
            \notin { Closed[i].closeTimestamp : i \in DOMAIN Closed }

C15_Expected(analyses) ==
    [i \in 1..Min(Len(analyses), ANALYSES_SHOWN) |->
        analyses[Len(analyses) + 1 - i]]

C15_Step ==
    /\ lastAnalyses(tradesStore') = C15_Expected(tradesStore'.analyses)
    /\ event'.op = "lastAnalyses" =>
        /\ event'.result = C15_Expected(tradesStore.analyses)
        /\ tradesStore' = tradesStore
        /\ tradersStore' = tradersStore
        /\ marketStore' = marketStore
        /\ event.op = "lastAnalyses" => event'.result = event.result

\* C15: lastAnalyses returns the last 8 notes of the analysis log, all of
\* them when there are fewer, newest first; reading it changes no store, and
\* two reads in a row return the same sequence.
C15_LastAnalyses == [][C15_Step]_vars

\* a read, after another call, of a log of more than 8 notes
C15_Witness ==
    /\ event.op = "lastAnalyses"
    /\ Len(tradesStore.analyses) > ANALYSES_SHOWN
    /\ Len(event.result) = ANALYSES_SHOWN
    /\ event.result[1] = tradesStore.analyses[Len(tradesStore.analyses)]
    /\ calls > 1

C12_Step ==
    \A i \in AssetIdx :
        LET previous == marketStore.assets[i].price
            price == marketStore'.assets[i].price
        IN  /\ price >= Cents(MIN_PRICE)
            /\ 2 * price >= previous
            /\ price > 0

\* C12: at every tick the new price of every asset, rounded to the cent, is
\* at least 5 and at least half the previous price, and so is positive,
\* whether prices stay, rise, or fall by 4.8% or 6.998% at every tick.
C12_PriceFloor ==
    (\A i \in AssetIdx : marketStore.assets[i].price >= Cents(MIN_PRICE))
        /\ [][C12_Step]_vars

\* a tick that brought an asset from above 5.00 down to 5.00: the floor of
\* Math.max decided the price
C12_Witness ==
    \E i \in AssetIdx :
        LET asset == marketStore.assets[i]
            n == Len(asset.history)
        IN  /\ n > 1
            /\ asset.price = Cents(MIN_PRICE)
            /\ asset.history[n].price = Cents(MIN_PRICE)
            /\ asset.history[n - 1].price > Cents(MIN_PRICE)
            /\ asset.history[n - 1].price < Cents(MIN_PRICE) + 30

(***************************************************************************)
(* The dashboard on a quiet market: no shock, prices stay where they are,  *)
(* every trader goes long, and one entry more than in Spec, so that a      *)
(* trader holds a second position after its first one was closed.          *)
(***************************************************************************)
QuietSource ==
    [DefaultRandom EXCEPT !.gate = {500}, !.shocks = 0, !.type = {999},
                          !.trades = MaxTrades + 1]

InitRun ==
    /\ marketStore = MarketInit(StartTime)
    /\ tradersStore = TradersInit(StartTime)
    /\ tradesStore = TradesInit
    /\ now = StartTime
    /\ pc = "unmounted"
    /\ cur = 0
    /\ pending = <<>>
    /\ timestamp = StartTime
    /\ shocksDrawn = 0
    /\ random = QuietSource
    /\ calls = 0
    /\ event = [op |-> "init"]

SpecRun == InitRun /\ [][Next]_vars

\* the ids of the trades created so far: createTrade leaves one note per trade
createdSoFar ==
    [i \in DOMAIN tradesStore.analyses |-> tradesStore.analyses[i].id]

\* C13: the ids createTrade assigns (trader id and tick timestamp) are
\* unique in a run of the dashboard: no two trades ever created share an id,
\* no two open trades, no two logged trades, and no open trade has the id of
\* a logged one, so that closeTrade(id) finds at most one trade.
C13_UniqueIds ==
    /\ \A i, j \in DOMAIN createdSoFar :
            createdSoFar[i] = createdSoFar[j] => i = j
    /\ \A i, j \in DOMAIN Open : Open[i].id = Open[j].id => i = j
    /\ \A i, j \in DOMAIN Closed : Closed[i].id = Closed[j].id => i = j
    /\ openIds(tradesStore) \cap closedIds(tradesStore) = {}
    /\ openIds(tradesStore) \cup closedIds(tradesStore)
            = { createdSoFar[i] : i \in DOMAIN createdSoFar }

\* a trader holds a position it opened at the tick where its earlier
\* position was closed
C13_Witness ==
    \E i \in DOMAIN Open, j \in DOMAIN Closed :
        /\ Open[i].aiTrader = Closed[j].aiTrader
        /\ Open[i].timestamp = Closed[j].closeTimestamp
        /\ Open[i].id # Closed[j].id

\* trades opened and trades closed so far in a run (the closed-trade log
\* holds every closed trade while fewer than 200 were closed)
opened == Len(Open) + Len(Closed)
closes == Len(Closed)

\* C14: the analysis log of the ledger holds one note per position opened
\* plus one note per position closed.
C14_NotePerOpenAndClose == Len(tradesStore.analyses) = opened + closes

StatsOf(id) == tradersStore[id].stats

C16_Step ==
    /\ \A id \in TraderIds :
        /\ StatsOf(id)'.peakBalance >= StatsOf(id).peakBalance
        /\ StatsOf(id)'.maxDrawdown >= StatsOf(id).maxDrawdown
    /\ \A id \in TraderIds :
        (event'.op = "updateBalance" /\ event'.traderId = id) =>
            LET balance == tradersStore[id].balance + event'.delta
            IN  /\ tradersStore'[id].balance = balance
                /\ StatsOf(id)'.peakBalance
                        = Max(StatsOf(id).peakBalance, balance)
                /\ StatsOf(id)'.maxDrawdown
                        = Max(StatsOf(id).maxDrawdown,
                              StatsOf(id)'.peakBalance - balance)
    /\ event'.op # "updateBalance" =>
        \A id \in TraderIds :
            /\ StatsOf(id)'.peakBalance = StatsOf(id).peakBalance
            /\ StatsOf(id)'.maxDrawdown = StatsOf(id).maxDrawdown

\* C16: across updateBalance, registerTrade and setAnalysis calls no
\* trader's peakBalance or maxDrawdown ever decreases; updateBalance sets
\* peakBalance to the larger of the old peak and the new balance, and
\* maxDrawdown to the larger of the old maximum and peakBalance minus the
\* new balance; the other calls leave both alone.
C16_PeakAndDrawdownMonotone == [][C16_Step]_vars

\* a balance that is back at its peak after a loss: the drawdown of the
\* moment is 0, the maximum kept is the earlier one
C16_Witness ==
    /\ event.op = "updateBalance"
    /\ event.traderId \in TraderIds
    /\ event.delta > 0
    /\ tradersStore[event.traderId].balance
            = StatsOf(event.traderId).peakBalance
    /\ StatsOf(event.traderId).maxDrawdown > 0

C17_Step ==
    /\ \A id \in TraderIds : StatsOf(id)'.wins <= StatsOf(id)'.totalTrades
    /\ \A id \in TraderIds :
        IF event'.op = "registerTrade" /\ event'.traderId = id
        THEN /\ StatsOf(id)'.totalTrades = StatsOf(id).totalTrades + 1
             /\ StatsOf(id)'.wins =
                    StatsOf(id).wins
                        + (IF event'.trade.pnl > 0 THEN 1 ELSE 0)
        ELSE /\ StatsOf(id)'.totalTrades = StatsOf(id).totalTrades
             /\ StatsOf(id)'.wins = StatsOf(id).wins

\* C17: registerTrade adds exactly 1 to the trader's totalTrades and adds 1
\* to wins exactly when the trade's pnl is above 0 (a pnl of 0 or below
\* leaves wins as it is); no other trader and no other call changes either
\* counter, and wins never exceeds totalTrades.
C17_WinsCounted ==
    (\A id \in TraderIds : StatsOf(id).wins <= StatsOf(id).totalTrades)
        /\ [][C17_Step]_vars

\* a trade that broke even registered after a win
C17_Witness ==
    /\ event.op = "registerTrade"
    /\ event.traderId \in TraderIds
    /\ event.trade.pnl = 0
    /\ StatsOf(event.traderId).wins = 1
    /\ StatsOf(event.traderId).totalTrades = 2

\* rate, in tenths of a percent, is wins / totalTrades * 100 rounded to one
\* decimal
NearestTenth(rate, wins, totalTrades) ==
    2 * Abs(rate * totalTrades - 1000 * wins) <= totalTrades

\* C18: every trader's winRate is within [0, 100]; it is 0 while no trade
\* was registered and wins / totalTrades * 100 rounded to one decimal
\* afterwards.
C18_WinRate ==
    \A id \in TraderIds :
        LET stats == StatsOf(id)
        IN  /\ stats.winRate >= 0
            /\ stats.winRate <= 1000
            /\ stats.totalTrades = 0 => stats.winRate = 0
            /\ stats.totalTrades > 0 =>
                NearestTenth(stats.winRate, stats.wins, stats.totalTrades)

\* two wins in three trades: 66.666... shown as 66.7
C18_Witness ==
    \E id \in TraderIds :
        /\ StatsOf(id).totalTrades = 3
        /\ StatsOf(id).wins = 2
        /\ StatsOf(id).winRate = 667

C19_Step ==
    (event'.op \in {"updateBalance", "registerTrade", "setAnalysis"}
        /\ event'.traderId \notin TraderIds)
    => /\ ~event'.raised
       /\ tradersStore' = tradersStore
       /\ DOMAIN tradersStore' = TraderIds

\* C19: updateBalance, registerTrade and setAnalysis called with an id that
\* is not a trader's raise nothing and return without a change: every
\* trader's balance, balanceHistory, stats and lastAnalysis stay as they
\* were, and no entry is added for the id.  (The code does raise, for an id
\* that names a property every object inherits.)
C19_UnknownTraderNoOp == [][C19_Step]_vars

\* updateBalance called with "toString", which is no trader's id, has thrown
\* a TypeError; the traders are as they were
C19_Witness ==
    /\ event.op = "updateBalance"
    /\ event.traderId = InheritedName
    /\ InheritedName \notin TraderIds
    /\ event.raised

(***************************************************************************)
(* The same run with the scheduling of the code: a tick is one synchronous *)
(* call, so each of its steps is taken once it can be, and the timer of    *)
(* setInterval fires while ticks remain.                                   *)
(***************************************************************************)
SpecRunFair ==
    /\ SpecRun
    /\ WF_vars(RunSimulationTick)
    /\ WF_vars(MaybeCloseTrades)
    /\ WF_vars(MaybeOpenTrade)

InTick == pc \in {"mounted", "trader"}

\* the notes a trader's entries left at the tick of timestamp t
EntriesAt(traderId, t) ==
    { i \in DOMAIN tradesStore.analyses :
        /\ tradesStore.analyses[i].aiTrader = traderId
        /\ tradesStore.analyses[i].timestamp = t }

C20_Step ==
    /\ event'.op = "runSimulationTick" =>
        /\ marketStore'.tick = marketStore.tick + 1
        /\ \A i \in AssetIdx :
            LET old == marketStore.assets[i].history
                new == marketStore'.assets[i].history
            IN  /\ Len(new) = Len(old) + 1
                /\ SubSeq(new, 1, Len(old)) = old
                /\ new[Len(new)].time = timestamp'
        /\ cur' = 1
    /\ event'.op # "runSimulationTick" /\ pc # "unmounted" =>
        marketStore' = marketStore
    /\ event'.op = "maybeCloseTrades" =>
        /\ pending # << >>
        /\ event'.trade = Head(pending)
        /\ pending' = Tail(pending)
        /\ event'.trade.aiTrader = Trader(cur).id
        /\ cur' = cur
    /\ event'.op = "maybeOpenTrade" =>
        /\ pending = << >>
        /\ cur' = IF cur < Len(strategies) THEN cur + 1 ELSE 0
        /\ pc' = IF cur < Len(strategies) THEN "trader" ELSE "idle"
    /\ \A id \in TraderIds : Cardinality(EntriesAt(id, timestamp)') <= 1

\* C20: a tick that has started ends.  Its first step advances every asset
\* by one price point; then, trader after trader, every position the trader
\* held at that moment is evaluated once and one entry is considered, at
\* most one trade being opened per trader; after the last trader the
\* dashboard is idle again, ready for the timer.
C20_TickCompletes ==
    /\ [][C20_Step]_vars
    /\ InTick ~> (pc = "idle")

\* the end of a later tick: idle again after positions were closed and
\* another entry was made
C20_Witness ==
    /\ pc = "idle"
    /\ event.op = "maybeOpenTrade"
    /\ marketStore.tick > 2
    /\ Closed # << >>
    /\ Open # << >>

(***************************************************************************)
(* The dashboard followed long enough for a trader to fill its three       *)
(* positions and be evaluated once more: a quiet market, long entries, no  *)
(* position closed, three ticks and three entries more than in Spec.       *)
(***************************************************************************)
BusySource ==
    [DefaultRandom EXCEPT !.gate = {500}, !.shocks = 0, !.type = {999},
                          !.close = {0},
                          !.trades = MaxTrades + MAX_ACTIVE,
                          !.ticks = MaxTicks + MAX_ACTIVE - 1]

InitBusy ==
    /\ marketStore = MarketInit(StartTime)
    /\ tradersStore = TradersInit(StartTime)
    /\ tradesStore = TradesInit
    /\ now = StartTime
    /\ pc = "unmounted"
    /\ cur = 0
    /\ pending = <<>>
    /\ timestamp = StartTime
    /\ shocksDrawn = 0
    /\ random = BusySource
    /\ calls = 0
    /\ event = [op |-> "init"]

SpecBusy == InitBusy /\ [][Next]_vars

\* the open positions a trader holds
Held(id) == positionsOf(tradesStore, id)

C21_Step ==
    /\ \A id \in TraderIds :
        /\ Len(Held(id)') <= MAX_ACTIVE
        /\ Len(Held(id)') <= Len(Held(id)) + 1
        /\ Cardinality({ i \in DOMAIN Open' :
                            /\ Open'[i].aiTrader = id
                            /\ Open'[i].timestamp = timestamp' }) <= 1
        /\ (event'.op = "maybeOpenTrade" /\ event'.traderId = id
                /\ Len(Held(id)) >= MAX_ACTIVE)
            => /\ IsNull(event'.result)
               /\ tradesStore' = tradesStore
               /\ tradersStore' = tradersStore
    /\ Len(Open') <= MAX_ACTIVE * Len(strategies)

\* C21: maybeOpenTrade returns at once for a trader that holds 3 open
\* positions or more, without a trade or a note; so no trader ever holds
\* more than 3 open positions, the ledger never more than 12, and a trader
\* opens at most one position per tick.
C21_AtMostThreeOpen ==
    (\A id \in TraderIds : Len(Held(id)) <= MAX_ACTIVE)
        /\ [][C21_Step]_vars

\* maybeOpenTrade skipped for a trader that holds 3 positions, all opened
\* at earlier ticks
C21_Witness ==
    /\ event.op = "maybeOpenTrade"
    /\ IsNull(event.result)
    /\ Len(Held(event.traderId)) = MAX_ACTIVE
    /\ \A i \in DOMAIN Open :
        Open[i].aiTrader = event.traderId => Open[i].timestamp < timestamp

(***************************************************************************)
(* The dashboard on a market that moves: a shock of +3% may hit an asset,  *)
(* every trader goes long, and one entry more than in Spec.                *)
(***************************************************************************)
MovingSource ==
    [DefaultRandom EXCEPT !.shock = {750}, !.type = {999},
                          !.trades = MaxTrades + 1]

InitMoving ==
    /\ marketStore = MarketInit(StartTime)
    /\ tradersStore = TradersInit(StartTime)
    /\ tradesStore = TradesInit
    /\ now = StartTime
    /\ pc = "unmounted"
    /\ cur = 0
    /\ pending = <<>>
    /\ timestamp = StartTime
    /\ shocksDrawn = 0
    /\ random = MovingSource
    /\ calls = 0
    /\ event = [op |-> "init"]

SpecMoving == InitMoving /\ [][Next]_vars

\* the price the running tick gave an asset: the last point of its history,
\* stamped with the tick's timestamp
TickPrice(symbol) ==
    LET asset == assetPriceMap(marketStore)[symbol]
        last == asset.history[Len(asset.history)]
    IN  IF last.time = timestamp /\ last.price = asset.price
        THEN asset.price ELSE -1

C22_Step ==
    /\ event'.op = "runSimulationTick" =>
        /\ marketStore'.tick = marketStore.tick + 1
        /\ \A i \in AssetIdx :
            LET h == marketStore'.assets[i].history
            IN  h[Len(h)].time = timestamp'
        /\ tradersStore' = tradersStore
        /\ tradesStore' = tradesStore
        /\ cur' = 1
    /\ event'.op \in {"maybeCloseTrades", "maybeOpenTrade"} =>
        /\ marketStore' = marketStore
        /\ timestamp' = timestamp
        /\ event'.traderId = strategies[cur].id
        /\ cur' \in {cur, cur + 1, 0}
        /\ cur' = 0 <=> (cur = Len(strategies) /\ event'.op = "maybeOpenTrade")
    /\ event'.op = "maybeCloseTrades" =>
        /\ event'.price = TickPrice(event'.trade.asset)
        /\ event'.trade.timestamp < timestamp
        /\ cur' = cur
    /\ event'.op = "maybeOpenTrade" =>
        /\ pending = << >>
        /\ cur' # cur
        /\ ~IsNull(event'.result) =>
            /\ event'.result.entryPrice = TickPrice(event'.result.asset)
            /\ event'.result.timestamp = timestamp

\* C22: a tick first advances every asset's price, once, with no trader or
\* trade touched; the traders are then evaluated in the order of the
\* registry, each one's exits before its entry, on prices that no longer
\* change; exits and entries use the prices of the running tick, and a
\* position is never evaluated for exit at the tick that opened it.
C22_TickOrder == [][C22_Step]_vars

\* a trader's entry at the tick in which its earlier position was closed at
\* a price that had moved
C22_Witness ==
    /\ event.op = "maybeOpenTrade"
    /\ ~IsNull(event.result)
    /\ \E j \in DOMAIN Closed :
        /\ Closed[j].aiTrader = event.traderId
        /\ Closed[j].closeTimestamp = event.result.timestamp
        /\ Closed[j].exitPrice # Closed[j].entryPrice
        /\ event.result.entryPrice = Closed[j].exitPrice

(***************************************************************************)
(* The evaluation of the traders as functions of the stores, s being       *)
(* [traders, trades]: what the steps MaybeCloseTrades and MaybeOpenTrade   *)
(* do one call at a time, here composed for any order of the traders.      *)
(***************************************************************************)
Stores == [traders |-> tradersStore, trades |-> tradesStore]

\* the body of the forEach of maybeCloseTrades for one position
closeOne(s, market, traderId, trade, time, r) ==
    LET trader == s.traders[traderId]
        price == priceFor(market, trade)
        closed == closeTradeResult(s.trades, trade.id, price, time)
    IN  IF ~shouldClose(trader, trade, price, r) THEN s
        ELSE [trades  |-> closeTrade(s.trades, trade.id, price, time),
              traders |->
                IF IsNull(closed) THEN s.traders
                ELSE setAnalysis(
                        registerTrade(
                            updateBalance(s.traders, traderId, closed.pnl,
                                          time),
                            traderId, closed),
                        traderId, closeSummary(trader, trade, closed))]

RECURSIVE closeEach(_, _, _, _, _, _)
closeEach(s, market, traderId, positions, time, draws) ==
    IF positions = << >> THEN s
    ELSE closeEach(closeOne(s, market, traderId, Head(positions), time,
                            draws[Head(positions).id]),
                   market, traderId, Tail(positions), time, draws)

\* maybeCloseTrades(trader, timestamp); draws[id] is the draw of the
\* iteration on the position id
maybeCloseTrades(s, market, traderId, time, draws) ==
    closeEach(s, market, traderId, positionsOf(s.trades, traderId), time,
              draws)

\* maybeOpenTrade(trader, timestamp); d holds the draws
maybeOpenTrade(s, market, traderId, time, d) ==
    LET trader == s.traders[traderId]
        active == positionsOf(s.trades, traderId)
        payload == openPayload(trader, market, time, d)
    IN  IF Len(active) >= MAX_ACTIVE \/ ~shouldTrade(d.should) THEN s
        ELSE [trades  |-> createTrade(s.trades, payload),
              traders |-> setAnalysis(s.traders, traderId, payload.analysis)]

\* the body of the forEach of runSimulationTick, then the forEach over the
\* traders taken in the order `order`; draws.close[id] is the draw for the
\* position id, draws.open[id] holds the entry draws of the trader id
RECURSIVE forEachTrader(_, _, _, _, _)
forEachTrader(s, market, order, time, draws) ==
    IF order = << >> THEN s
    ELSE LET id == Head(order)
             exits == maybeCloseTrades(s, market, id, time, draws.close)
             entry == maybeOpenTrade(exits, market, id, time, draws.open[id])
         IN  forEachTrader(entry, market, Tail(order), time, draws)

RegistryOrder == [i \in DOMAIN strategies |-> strategies[i].id]

Orders ==
    { order \in [DOMAIN strategies -> TraderIds] :
        \A i, j \in DOMAIN strategies : order[i] = order[j] => i = j }

\* the draws the traders may get at a tick: one per open position and the
\* draws of one entry, for every trader
TraderDraws ==
    [close : [openIds(tradesStore) -> random.close],
     open  : [TraderIds -> OpenDraws]]

\* what a trader has after a tick: itself (balance, balance history, stats,
\* last analysis), its open positions and the trades it closed
LogOf(s, id) ==
    LET Mine(trade) == trade.aiTrader = id
    IN  Filter(s.history, Mine)

Outcome(s) ==
    [id \in TraderIds |->
        [trader |-> s.traders[id],
         open   |-> positionsOf(s.trades, id),
         closed |-> LogOf(s.trades, id)]]

TickStarted == pc = "trader" /\ event.op = "runSimulationTick"

C23_OrderIndependent ==
    TickStarted =>
        \A draws \in TraderDraws, order \in Orders :
            Outcome(forEachTrader(Stores, marketStore, order, timestamp,
                                  draws))
            = Outcome(forEachTrader(Stores, marketStore, RegistryOrder,
                                    timestamp, draws))

C23_Step ==
    /\ event'.op = "maybeCloseTrades" =>
        \E r \in CloseDraws :
            Stores' = closeOne(Stores, marketStore, event'.traderId,
                               event'.trade, timestamp, r)
    /\ event'.op = "maybeOpenTrade" =>
        \E d \in OpenDraws \cup {NoOpenDraws} :
            Stores' = maybeOpenTrade(Stores, marketStore, event'.traderId,
                                     timestamp, d)
    /\ event'.op \in {"maybeCloseTrades", "maybeOpenTrade"} =>
        \A id \in TraderIds \ {event'.traderId} :
            Outcome(Stores')[id] = Outcome(Stores)[id]

\* C23: the evaluation of a trader (its exits, then its entry) changes only
\* that trader's entry of the registry, its open positions and the trades
\* it closed; and from the state in which a tick starts, with the prices and
\* every trader's draws fixed, each trader's balance, balance history,
\* stats, last analysis, open positions and closed trades come out the same
\* in whatever order the traders are evaluated.
C23_TradersIndependent ==
    []C23_OrderIndependent /\ [][C23_Step]_vars

\* a tick that starts with positions of two traders open, one of them on an
\* asset whose price moved
C23_Witness ==
    /\ TickStarted
    /\ \E i, j \in DOMAIN Open :
        /\ Open[i].aiTrader # Open[j].aiTrader
        /\ priceFor(marketStore, Open[i]) # Open[i].entryPrice

C24_Step ==
    \A id \in TraderIds :
        LET best == StatsOf(id).bestTrade
            worst == StatsOf(id).worstTrade
        IN  /\ IF event'.op = "registerTrade" /\ event'.traderId = id
               THEN /\ StatsOf(id)'.bestTrade =
                        IF IsNull(best) THEN event'.trade
                        ELSE IF event'.trade.pnl > best.pnl THEN event'.trade
                        ELSE best
                    /\ StatsOf(id)'.worstTrade =
                        IF IsNull(worst) THEN event'.trade
                        ELSE IF event'.trade.pnl < worst.pnl
                        THEN event'.trade
                        ELSE worst
               ELSE /\ StatsOf(id)'.bestTrade = best
                    /\ StatsOf(id)'.worstTrade = worst
            /\ IsNull(StatsOf(id)'.bestTrade)
                    <=> StatsOf(id)'.totalTrades = 0
            /\ IsNull(StatsOf(id)'.worstTrade)
                    <=> StatsOf(id)'.totalTrades = 0
            /\ ~IsNull(StatsOf(id)'.bestTrade) =>
                    StatsOf(id)'.bestTrade.pnl >= StatsOf(id)'.worstTrade.pnl

\* C24: the first trade registered for a trader becomes its bestTrade and
\* its worstTrade; a later trade replaces bestTrade only when its pnl is
\* strictly greater and worstTrade only when strictly less, so that of the
\* trades with the highest (lowest) pnl the one registered first stays;
\* nothing else changes either field.
C24_BestAndWorst == [][C24_Step]_vars

\* a trade registered with the pnl of the best trade, registered earlier:
\* the earlier one stays
C24_Witness ==
    /\ event.op = "registerTrade"
    /\ event.traderId \in TraderIds
    /\ ~IsNull(StatsOf(event.traderId).bestTrade)
    /\ StatsOf(event.traderId).bestTrade.pnl = event.trade.pnl
    /\ StatsOf(event.traderId).bestTrade # event.trade
    /\ StatsOf(event.traderId).worstTrade # event.trade

(***************************************************************************)
(* The dashboard mounted on a trades store that already holds one open     *)
(* position on a symbol the market does not list, created through          *)
(* createTrade one tick interval before; the steps of a tick are taken     *)
(* once they can be.                                                       *)
(***************************************************************************)
OrphanPayloads ==
    { [traderId   |-> tr,
       asset      |-> "DOGE",
       type       |-> ty,
       entryPrice |-> Cents(100),
       size       |-> 100,
       analysis   |-> << "nota", tr >>,
       timestamp  |-> StartTime - TICK_INTERVAL_MS] :
        tr \in {"grok", "chatgpt"}, ty \in LedgerTypes }

InitOrphan ==
    /\ marketStore = MarketInit(StartTime)
    /\ tradersStore = TradersInit(StartTime)
    /\ \E payload \in OrphanPayloads :
        tradesStore = createTrade(TradesInit, payload)
    /\ now = StartTime
    /\ pc = "unmounted"
    /\ cur = 0
    /\ pending = <<>>
    /\ timestamp = StartTime
    /\ shocksDrawn = 0
    /\ random = [QuietSource EXCEPT !.trades = MaxTrades + 2]
    /\ calls = 0
    /\ event = [op |-> "init"]

SpecOrphan ==
    /\ InitOrphan
    /\ [][Next]_vars
    /\ WF_vars(RunSimulationTick)
    /\ WF_vars(MaybeCloseTrades)
    /\ WF_vars(MaybeOpenTrade)

Listed(symbol) == \E i \in AssetIdx : marketStore.assets[i].symbol = symbol

C25_Step ==
    (event'.op = "maybeCloseTrades" /\ ~Listed(event'.trade.asset)) =>
        /\ event'.price = event'.trade.entryPrice
        /\ ~event'.hitTp
        /\ ~event'.hitSl
        /\ pending' = Tail(pending)
        /\ pc' = "trader"
        /\ IF event'.shouldClose
           THEN /\ ~IsNull(event'.result)
                /\ event'.result.pnl = 0
                /\ event'.result.exitPrice = event'.trade.entryPrice
                /\ Head(Closed') = event'.result
                /\ tradersStore'[event'.traderId].balance
                        = tradersStore[event'.traderId].balance
                /\ tradersStore'[event'.traderId].stats.totalTrades
                        = StatsOf(event'.traderId).totalTrades + 1
                /\ tradersStore'[event'.traderId].stats.wins
                        = StatsOf(event'.traderId).wins
           ELSE /\ tradesStore' = tradesStore
                /\ tradersStore' = tradersStore

\* C25: a position on a symbol that is not among the assets is evaluated
\* at its entry price: neither bracket is hit, so only the draw closes it;
\* the close books a pnl of 0, leaves the balance where it is and counts as
\* a trade that is not a win; and the tick goes on to the trader's entry and
\* to the other traders until the dashboard is idle again.
C25_MissingPrice ==
    /\ [][C25_Step]_vars
    /\ InTick ~> (pc = "idle")

\* the tick ended after the position on the unlisted symbol was closed by
\* the draw with a pnl of 0, and a position was opened at that same tick
C25_Witness ==
    /\ pc = "idle"
    /\ \E j \in DOMAIN Closed :
        /\ ~Listed(Closed[j].asset)
        /\ Closed[j].pnl = 0
        /\ Closed[j].exitPrice = Closed[j].entryPrice
        /\ \E i \in DOMAIN Open :
            Open[i].timestamp = Closed[j].closeTimestamp

(***************************************************************************)
(* The dashboard followed one tick longer on the moving market, every      *)
(* position being closed at the first tick that evaluates it: a trader     *)
(* closes one position, opens another and closes that one too.             *)
(***************************************************************************)
TurnoverSource ==
    [MovingSource EXCEPT !.close = {999}, !.ticks = MaxTicks + 1]

InitTurnover ==
    /\ marketStore = MarketInit(StartTime)
    /\ tradersStore = TradersInit(StartTime)
    /\ tradesStore = TradesInit
    /\ now = StartTime
    /\ pc = "unmounted"
    /\ cur = 0
    /\ pending = <<>>
    /\ timestamp = StartTime
    /\ shocksDrawn = 0
    /\ random = TurnoverSource
    /\ calls = 0
    /\ event = [op |-> "init"]

SpecTurnover == InitTurnover /\ [][Next]_vars

RECURSIVE SumPnl(_)
SumPnl(trades) ==
    IF trades = << >> THEN 0 ELSE Head(trades).pnl + SumPnl(Tail(trades))

\* the trades a trader has closed, while the log has evicted none
ClosedBy(id) == LogOf(tradesStore, id)

C26_Books ==
    Len(Closed) < TRADE_HISTORY_LIMIT =>
        \A id \in TraderIds :
            /\ tradersStore[id].balance
                    = Cents(BASE_BALANCE) + SumPnl(ClosedBy(id))
            /\ StatsOf(id).totalTrades = Len(ClosedBy(id))

C26_Step ==
    \A id \in TraderIds :
        IF /\ event'.op = "maybeCloseTrades"
           /\ event'.traderId = id
           /\ ~IsNull(event'.result)
        THEN /\ tradersStore'[id].balance
                    = tradersStore[id].balance + event'.result.pnl
             /\ StatsOf(id)'.totalTrades = StatsOf(id).totalTrades + 1
             /\ Head(Closed') = event'.result
        ELSE /\ tradersStore'[id].balance = tradersStore[id].balance
             /\ StatsOf(id)'.totalTrades = StatsOf(id).totalTrades
             /\ ClosedBy(id)' = ClosedBy(id)

\* C26: every trader's balance is the initial 10000 plus the pnl of every
\* trade it has closed, and its totalTrades the number of those trades:
\* each close adds the closed trade's pnl to the closing trader's balance
\* and 1 to its totalTrades, whatever the log keeps of it later, and no
\* other step changes a balance or a totalTrades.
C26_BalanceIsSumOfPnl == []C26_Books /\ [][C26_Step]_vars

\* a trader that closed two positions, one of them with a profit
C26_Witness ==
    \E id \in TraderIds :
        /\ Len(ClosedBy(id)) = 2
        /\ SumPnl(ClosedBy(id)) > 0
        /\ tradersStore[id].balance > Cents(BASE_BALANCE)

(***************************************************************************)
(* The trades store called with the smallest trades the dashboard makes:   *)
(* entry prices at and just above the floor of 5.00, the smallest size     *)
(* (risk Baja, draw 0), closed at a price that is exactly a bracket.       *)
(***************************************************************************)
SmallestSize == tradeSize(StrategyOf("chatgpt"), 0)

\* 5.00, 5.01, 5.17, 5.50 (its brackets lie on half cents as exact decimals)
\* and 172.00
BracketEntryPrices ==
    {Cents(MIN_PRICE), Cents(MIN_PRICE) + 1, Cents(MIN_PRICE) + 17,
     Cents(MIN_PRICE) + 50, Cents(172)}

BracketPayloads(t) ==
    { [traderId   |-> "chatgpt",
       asset      |-> "TSLA",
       type       |-> ty,
       entryPrice |-> e,
       size       |-> SmallestSize,
       analysis   |-> << "nota", "chatgpt" >>,
       timestamp  |-> t] :
        ty \in LedgerTypes, e \in BracketEntryPrices }

BracketCreateCall ==
    /\ calls < MaxCalls
    /\ now' = now + TICK_INTERVAL_MS
    /\ \E payload \in BracketPayloads(now') :
        /\ tradesStore' = createTrade(tradesStore, payload)
        /\ event' = [op |-> "createTrade", payload |-> payload,
                     result |-> buildTrade(payload)]
    /\ calls' = calls + 1
    /\ UNCHANGED << marketStore, tradersStore, pc, cur, pending, timestamp,
                    shocksDrawn, random >>

\* closeTrade on an open trade, at its take-profit or at its stop-loss
BracketCloseCall ==
    /\ calls < MaxCalls
    /\ now' = now + TICK_INTERVAL_MS
    /\ \E i \in DOMAIN tradesStore.openPositions :
        LET trade == tradesStore.openPositions[i]
        IN  \E exitPrice \in {trade.takeProfit, trade.stopLoss} :
                /\ tradesStore' =
                        closeTrade(tradesStore, trade.id, exitPrice, now')
                /\ event' = [op |-> "closeTrade", tradeId |-> trade.id,
                             exitPrice |-> exitPrice, timestamp |-> now',
                             result |-> closeTradeResult(tradesStore, trade.id,
                                                         exitPrice, now')]
    /\ calls' = calls + 1
    /\ UNCHANGED << marketStore, tradersStore, pc, cur, pending, timestamp,
                    shocksDrawn, random >>

NextBracket ==
    \/ BracketCreateCall
    \/ BracketCloseCall

SpecBracket == Init /\ [][NextBracket]_vars

\* a trade the dashboard can create: a market price and a size it draws
Creatable(t) ==
    t.entryPrice >= Cents(MIN_PRICE) /\ t.size >= SmallestSize

EntryInsideBrackets(t) ==
    /\ IF t.type = "long"
       THEN t.stopLoss < t.entryPrice /\ t.entryPrice < t.takeProfit
       ELSE t.takeProfit < t.entryPrice /\ t.entryPrice < t.stopLoss
    /\ ~hitTp(t, t.entryPrice)
    /\ ~hitSl(t, t.entryPrice)

\* C27: for every trade with an entry price of 5.00 or more and a size of
\* 0.32 or more the entry price lies strictly between the rounded brackets,
\* so neither is hit at the entry price; a trade closed at a price that hits
\* the take-profit has a rounded pnl above 0, one closed at a price that
\* hits the stop-loss a rounded pnl below 0.
C27_BracketsAndPnlSign ==
    /\ \A i \in DOMAIN Open :
        Creatable(Open[i]) => EntryInsideBrackets(Open[i])
    /\ \A j \in DOMAIN Closed :
        Creatable(Closed[j]) =>
            /\ EntryInsideBrackets(Closed[j])
            /\ hitTp(Closed[j], Closed[j].exitPrice) => Closed[j].pnl > 0
            /\ hitSl(Closed[j], Closed[j].exitPrice) => Closed[j].pnl < 0

\* the smallest trades closed exactly at a bracket: a short entered at 5.00
\* and closed at its take-profit of 4.85 with 0.05, a long entered at 5.00
\* and closed at its stop-loss of 4.85 with -0.05
C27_Witness ==
    /\ \E j \in DOMAIN Closed :
        /\ Closed[j].type = "short"
        /\ Closed[j].entryPrice = Cents(MIN_PRICE)
        /\ Closed[j].exitPrice = Closed[j].takeProfit
        /\ Closed[j].pnl = 5
    /\ \E i \in DOMAIN Open :
        /\ Open[i].type = "long"
        /\ Open[i].entryPrice = Cents(MIN_PRICE)
        /\ Open[i].size = 32

\* C28: at every moment and for every trader the peak balance is at least
\* the current balance and at least the base balance, and the maximum
\* drawdown is at least 0 and at least the peak balance minus the current
\* balance.
C28_PeakAndDrawdownBounds ==
    \A id \in TraderIds :
        /\ StatsOf(id).peakBalance >= tradersStore[id].balance
        /\ StatsOf(id).peakBalance >= Cents(BASE_BALANCE)
        /\ StatsOf(id).maxDrawdown >= 0
        /\ StatsOf(id).maxDrawdown >=
                StatsOf(id).peakBalance - tradersStore[id].balance

\* a trader two losses down and one gain up again: the maximum drawdown
\* (6.00) is above the current one (3.00), the peak above the balance
C28_Witness ==
    \E id \in TraderIds :
        /\ event.op = "updateBalance"
        /\ event.traderId = id
        /\ event.delta > 0
        /\ StatsOf(id).maxDrawdown = 600
        /\ StatsOf(id).peakBalance - tradersStore[id].balance = 300

(***************************************************************************)
(* The dashboard with a timer that keeps firing and a fair close draw.     *)
(* maybeCloseTrades holds a position whenever no bracket is hit and        *)
(* Math.random() is at or below the hold probability, however long the     *)
(* position has been held: what keeps a position from being held forever   *)
(* is the source of the draws.  In a run of finitely many ticks a fair     *)
(* source is one with a budget: `holds` is the number of draws at or below *)
(* a hold probability that Math.random() still yields to maybeCloseTrades, *)
(* MaxHolds at the start, one less after every such draw; once it is spent *)
(* the source yields the draws above the hold probabilities only.  The     *)
(* timer is followed for MaxHolds + 1 ticks more than in Spec, so that a   *)
(* position opened in the first ticks can be held MaxHolds times and then  *)
(* closed.                                                                 *)
(***************************************************************************)
MaxHolds == 1

FairSource ==
    [f \in DOMAIN QuietSource \cup {"holds"} |->
        IF f = "holds" THEN MaxHolds
        ELSE IF f = "trades" THEN MaxTrades
        ELSE IF f = "ticks" THEN MaxTicks + MaxHolds + 1
        ELSE QuietSource[f]]

InitFair ==
    /\ marketStore = MarketInit(StartTime)
    /\ tradersStore = TradersInit(StartTime)
    /\ tradesStore = TradesInit
    /\ now = StartTime
    /\ pc = "unmounted"
    /\ cur = 0
    /\ pending = <<>>
    /\ timestamp = StartTime
    /\ shocksDrawn = 0
    /\ random = FairSource
    /\ calls = 0
    /\ event = [op |-> "init"]

\* the number of ticks since the one that opened the trade
HeldFor(trade) == (timestamp - trade.timestamp) \div TICK_INTERVAL_MS

\* a draw at or below the hold probability of some trader
LowDraw(r) == \E i \in DOMAIN strategies : r <= holdProbability(strategies[i])

\* the iteration of maybeCloseTrades with Math.random() drawn from the fair
\* source: the iteration is that of MaybeCloseTrades, for every draw the
\* source yields; a low draw that is consumed (no bracket is hit) is taken
\* off the budget of the source
FairCloseTrades ==
    /\ pc = "trader"
    /\ pending # <<>>
    /\ \E r \in { d \in random.close : LowDraw(d) => random.holds > 0 } :
        /\ CloseIteration(Trader(cur), Head(pending), r)
        /\ random' = IF event'.hitTp \/ event'.hitSl \/ ~LowDraw(r)
                     THEN random
                     ELSE [random EXCEPT !.holds = @ - 1]
    /\ pending' = Tail(pending)
    /\ UNCHANGED << marketStore, now, pc, cur, timestamp, shocksDrawn, calls >>

NextFair ==
    \/ OnMounted
    \/ RunSimulationTick
    \/ FairCloseTrades
    \/ MaybeOpenTrade

SpecFair ==
    /\ InitFair
    /\ [][NextFair]_vars
    /\ WF_vars(RunSimulationTick)
    /\ WF_vars(FairCloseTrades)
    /\ WF_vars(MaybeOpenTrade)

\* the ids of the trades opened at the first MaxTicks + 1 ticks
FairIds ==
    { TradeId(id, StartTime + k * TICK_INTERVAL_MS) :
        id \in TraderIds, k \in 0..MaxTicks }

\* the number of times the timer will still fire
TicksLeft == FairSource.ticks + 1 - marketStore.tick

IsOpen(id) == id \in openIds(tradesStore)

C29_Step ==
    \* every tick, a trader's turn starts with all its open positions queued
    /\ pc' = "trader" /\ (pc # "trader" \/ cur' # cur) =>
        pending' = positionsOf(tradesStore', Trader(cur').id)
    /\ event'.op = "runSimulationTick" =>
        \A i \in DOMAIN Open :
            Open[i].aiTrader = Trader(1).id =>
                \E k \in DOMAIN pending' : pending'[k].id = Open[i].id
    \* a queued position is evaluated before the trader's turn ends
    /\ event'.op = "maybeOpenTrade" => pending = << >>
    /\ event'.op = "maybeCloseTrades" =>
        /\ event'.trade = Head(pending)
        /\ event'.shouldClose =>
            /\ event'.trade.id \in openIds(tradesStore)
            /\ event'.trade.id \notin openIds(tradesStore')
        /\ ~event'.shouldClose => Open' = Open
    \* nothing but a close removes a position
    /\ \A i \in DOMAIN Open :
        Open[i].id \notin openIds(tradesStore') =>
            event'.op = "maybeCloseTrades" /\ event'.trade.id = Open[i].id

\* C29: while the timer keeps firing and the close draw is fair, every open
\* position is eventually closed.  At every tick each trader's turn starts
\* with all the positions it holds queued for evaluation, so a position is
\* evaluated again at every tick after the one that opened it, whatever the
\* number of times it has been held; an evaluation that decides to close
\* removes it, and nothing else does.  In the bounded run: a position that
\* is open while the timer is to fire more often than the source has low
\* draws left is closed.
C29_EventuallyClosed ==
    /\ [][C29_Step]_vars
    /\ \A id \in FairIds :
        (IsOpen(id) /\ TicksLeft > random.holds) ~> ~IsOpen(id)

\* a position that was held at every tick the source had a low draw for, and
\* closed by the draw at the next one, prices unchanged
C29_Witness ==
    /\ event.op = "maybeCloseTrades"
    /\ event.shouldClose
    /\ ~event.hitTp
    /\ ~event.hitSl
    /\ HeldFor(event.trade) = MaxHolds + 1
    /\ random.holds = 0
    /\ ~IsOpen(event.trade.id)

(***************************************************************************)
(* The dashboard mounted on a registry in which one trader has lost its    *)
(* whole capital: its balance is 0 when it considers an entry.             *)
(***************************************************************************)
SpentTrader == strategies[2].id

InitSpent ==
    /\ marketStore = MarketInit(StartTime)
    /\ tradersStore = updateBalance(TradersInit(StartTime), SpentTrader,
                                    -Cents(BASE_BALANCE), StartTime)
    /\ tradesStore = TradesInit
    /\ now = StartTime
    /\ pc = "unmounted"
    /\ cur = 0
    /\ pending = <<>>
    /\ timestamp = StartTime
    /\ shocksDrawn = 0
    /\ random = QuietSource
    /\ calls = 0
    /\ event = [op |-> "init"]

SpecSpent == InitSpent /\ [][Next]_vars

\* entryPrice * size, in cents
Notional(trade) == (trade.entryPrice * trade.size) \div 100

Opened == event.op = "maybeOpenTrade" /\ ~IsNull(event.result)

C30_Step ==
    Opened' =>
        LET trade == event'.result
            opener == event'.traderId
        IN  /\ trade.aiTrader = opener
            /\ Open' = Append(Open, trade)
            /\ Closed' = Closed
            /\ Len(tradesStore'.analyses) = Len(tradesStore.analyses) + 1
            /\ SubSeq(tradesStore'.analyses, 1, Len(tradesStore.analyses))
                    = tradesStore.analyses
            /\ tradesStore'.analyses[Len(tradesStore'.analyses)] =
                    [id        |-> trade.id,
                     aiTrader  |-> opener,
                     summary   |-> trade.analysis,
                     timestamp |-> trade.timestamp]
            /\ tradersStore' =
                    [tradersStore EXCEPT ![opener].lastAnalysis =
                                                trade.analysis]
            /\ \A id \in TraderIds :
                /\ tradersStore'[id].balance = tradersStore[id].balance
                /\ tradersStore'[id].balanceHistory =
                        tradersStore[id].balanceHistory
                /\ tradersStore'[id].stats = tradersStore[id].stats
            /\ marketStore' = marketStore

\* C30: opening a position appends one trade to the open set and one note
\* to the analysis log and sets the opening trader's last analysis; every
\* trader's balance, balance history and stats, every asset's price and
\* history, the closed-trade log and the other open positions, in their
\* order, stay as they are.  No capital is reserved or checked.
C30_OpeningFrame == [][C30_Step]_vars

\* the trader whose balance is 0 has just opened a position, worth more
\* than its balance, behind a position that was already open
C30_Witness ==
    /\ Opened
    /\ event.traderId = SpentTrader
    /\ tradersStore[SpentTrader].balance = 0
    /\ Notional(event.result) > tradersStore[SpentTrader].balance
    /\ Len(Open) = 2
    /\ Open[2] = event.result

====
